---- MODULE Spec2Model ----
(***************************************************************************)
(* web-cli: named tabs, the verb cache and the execution resolver of the   *)
(* `tab` command (src/src/commands/tab.ts), run against the StateManager   *)
(* the commands import (src/src/lib/state.ts, one tabs.json file).         *)
(*                                                                         *)
(* One command process runs at a time.  A command is a sequence of steps,  *)
(* one step per stretch of synchronous code between two awaits, so that a  *)
(* failing fetch, a tick of the clock and every persisted intermediate     *)
(* state are visible.                                                      *)
(*                                                                         *)
(* Time is counted in minutes.  A JavaScript object is a function whose    *)
(* domain is the set of its own keys; a property that is undefined reads   *)
(* like a missing one and JSON.stringify omits it, so both are modelled as *)
(* a key that is not in the domain.  A Verb is modelled by the fields the  *)
(* resolver reads (name, type, target, subverbs); description and params   *)
(* are only printed.  target "" stands for a missing target and subverbs   *)
(* <<>> for a missing list: the code tests both by truthiness / length.    *)
(***************************************************************************)
EXTENDS Integers, Sequences, FiniteSets, TLC

VARIABLES
    disk,           \* ~/.web-cli/tabs.json: tab name -> Tab
    state,          \* StateManager.state of the running process
    clock,          \* the wall clock (minutes)
    ncmds,          \* commands started so far
    pc,             \* position of the running command ("done": process exited)
    cmd,            \* the command line of the running / last command
    tabData,        \* tab.ts:23  the tab as loaded
    now,            \* tab.ts:33  the time discovery read
    cachedVerb,     \* tab.ts:119 the active verb
    actualVerb,     \* tab.ts:120 its composite name
    executionPlan,  \* tab.ts:162
    targetUrl,      \* tab.ts:210
    normalizedUrl,  \* nav.ts:25
    output,         \* the verbs the command printed
    outcome,        \* how the command ended
    message,        \* the lines the command wrote with console.error
    trace,          \* resolver states entered by this command, in order
    calls,          \* Fetcher / Extractor / Planner calls of this command, in order
    writes,         \* StateManager.save() calls of this command
    files,          \* ~/.web-cli/tabs/: file name -> the Tab in the file
    before,         \* files, state and disk as they were before the last store call
    call,           \* the last store call: operation, name, argument
    result,         \* how the last store call ended
    live,           \* the names set and not deleted since
    ncalls,         \* store calls made so far
    fs,             \* ~/.web-cli as two processes see it: path -> file
    procs,          \* the two processes: where each is in its store call
    hist,           \* what the calls of the two processes did, for the properties
    html,           \* the page handed to HTMLParser.parse
    parsedPage,     \* the verbs it returned
    linkText,       \* the text handed to sanitizeVerbName
    verbName,       \* the name it returned
    race            \* two commands running at once: the store and each command's position

\* The store called on its own
storeVars == <<files, before, call, result, live, ncalls>>

\* Two processes on the store
concVars == <<fs, procs, hist>>

\* The Extractor called on its own
extractVars == <<html, parsedPage, linkText, verbName>>

\* Two commands at once
raceVars == <<race>>

\* What no command touches
libVars == <<storeVars, concVars, extractVars, raceVars>>

vars == <<disk, state, clock, ncmds, pc, cmd, tabData, now, cachedVerb,
          actualVerb, executionPlan, targetUrl, normalizedUrl, output, outcome, message, trace, calls,
          writes, libVars>>

\* The commands
commandVars == <<clock, ncmds, pc, cmd, tabData, now, cachedVerb, actualVerb, executionPlan,
                 targetUrl, normalizedUrl, output, outcome, message, trace, calls, writes>>

locals == <<tabData, now, cachedVerb, actualVerb, executionPlan, targetUrl, normalizedUrl>>

----------------------------------------------------------------------------
(* Bounds *)

MaxClock == 5
MaxCmds == 4
MaxCalls == 3
MaxJobs == 3

(* tab.ts:64  5 * 60 * 1000 ms, in minutes *)
CACHE_TTL == 5

----------------------------------------------------------------------------
(* JavaScript values *)

\* undefined / null / {} : the object with no own key
Undefined == [k \in {} |-> 0]

StartsWith(s, p) == Len(s) >= Len(p) /\ SubSeq(s, 1, Len(p)) = p

RECURSIVE IndexFrom(_, _, _)
\* s.indexOf(ch, i) with 1-based positions; 0 when absent
IndexFrom(s, ch, i) ==
    IF i > Len(s) THEN 0
    ELSE IF SubSeq(s, i, i) = ch THEN i
    ELSE IndexFrom(s, ch, i + 1)

IsHttpUrl(u) == StartsWith(u, "http://") \/ StartsWith(u, "https://")

\* new URL(u).origin for an http(s) URL: scheme://host
UrlOrigin(u) ==
    LET start == IF StartsWith(u, "https://") THEN 9 ELSE 8
        slash == IndexFrom(u, "/", start)
    IN  IF slash = 0 THEN u ELSE SubSeq(u, 1, slash - 1)

\* new URL(ref, origin).href for a path reference ("/p" or "p")
UrlHref(ref, origin) ==
    IF StartsWith(ref, "/") THEN origin \o ref ELSE origin \o "/" \o ref

\* The directory of a URL: the URL up to its last slash after the host
UrlDirectory(u) ==
    LET origin == UrlOrigin(u)
        slashes == { i \in (Len(origin) + 1)..Len(u) : SubSeq(u, i, i) = "/" }
    IN  IF slashes = {} THEN origin \o "/"
        ELSE SubSeq(u, 1, CHOOSE i \in slashes : \A j \in slashes : j <= i)

\* Keys every object inherits from Object.prototype: obj[key] is a function
ObjectPrototypeKeys == {"constructor", "toString", "valueOf", "hasOwnProperty"}

\* What obj["constructor"] etc. evaluate to: a function object, which has a
\* name and no type, target or subverbs
InheritedFunction == [name |-> "Object", type |-> "undefined", target |-> "", subverbs |-> <<>>]

\* What obj["__proto__"] evaluates to on a plain object: Object.prototype,
\* an object that has none of a tab's properties
ObjectPrototype == [constructor |-> "Object"]

----------------------------------------------------------------------------
(* The store: src/src/lib/state.ts *)

\* { ...existing, ...updates } as JSON.stringify persists it; updates.unset
\* are the keys updates gives as undefined
SpreadMerge(existing, updates) ==
    [f \in ((DOMAIN existing \cup DOMAIN updates.set) \ updates.unset) |->
        IF f \in DOMAIN updates.set THEN updates.set[f] ELSE existing[f]]

\* The prototype of an object, when it is not Object.prototype, is kept
\* under a key no property name can be
ProtoSlot == "[[Prototype]]"

\* Object.keys(obj): the own properties
OwnKeys(obj) == DOMAIN obj \ {ProtoSlot}

\* obj[key] = val on a plain object.  Assigning an object to __proto__ sets
\* the prototype of obj and gives it no property of its own
ObjectSet(obj, key, val) ==
    LET k2 == IF key = "__proto__" THEN ProtoSlot ELSE key
    IN  [k \in (DOMAIN obj \cup {k2}) |-> IF k = k2 THEN val ELSE obj[k]]

\* this.state[name]: the own property, else what the prototype chain gives
getTab(st, name) ==
    IF name \in OwnKeys(st) THEN st[name]
    ELSE IF name = "__proto__"
      THEN IF ProtoSlot \in DOMAIN st THEN st[ProtoSlot] ELSE ObjectPrototype
    ELSE IF ProtoSlot \in DOMAIN st /\ name \in DOMAIN st[ProtoSlot] THEN st[ProtoSlot][name]
    ELSE IF name \in ObjectPrototypeKeys THEN InheritedFunction
    ELSE Undefined

\* The own enumerable properties { ...value } copies: none for a function
\* and none for Object.prototype
OwnProperties(value) ==
    IF value \in {InheritedFunction, ObjectPrototype} THEN Undefined ELSE value

\* init(): this.state = JSON.parse(tabs.json), {} when the file is missing
init(file) == file

\* save(): tabs.json = JSON.stringify(this.state), the own properties
save(st) == [k \in OwnKeys(st) |-> st[k]]

\* setTab before save()
setTab(st, name, tab) == ObjectSet(st, name, tab)

\* updateTab before save(); the caller guards on `existing`
updateTab(st, name, updates) ==
    ObjectSet(st, name, SpreadMerge(OwnProperties(getTab(st, name)), updates))

\* deleteTab before save(): delete this.state[name]
deleteTab(st, name) == [k \in (DOMAIN st \ {name}) |-> st[k]]

\* listTabs: Object.keys(this.state)
listTabs(st) == OwnKeys(st)

getAllTabs(st) == st

\* nav.ts:25-28
NormalizeUrl(url) == IF IsHttpUrl(url) THEN url ELSE "https://" \o url

\* nav.ts:36-39
NavTab(url, t) == [current_url |-> url, last_updated |-> t]

----------------------------------------------------------------------------
(* The pages and the collaborators' answers the model draws from *)

HomeUrl == "https://example.com"

V(n, ty, tgt, subs) == [name |-> n, type |-> ty, target |-> tgt, subverbs |-> subs]

VAbout    == V("about", "navigate", "https://example.com/about", <<>>)
VSearch   == V("search", "form", "https://example.com/search", <<>>)
VSearchB  == V("search", "action", "", <<>>)
SDocs     == V("docs", "navigate", "/docs", <<>>)
SCheckout == V("checkout", "form", "", <<>>)
SCart     == V("add-to-cart", "action", "doCart()", <<>>)
SMech     == V("mechanical", "navigate", "https://example.com/about", <<>>)
SKeyboards == V("keyboards", "navigate", "", <<SMech>>)
VProducts == V("products", "navigate", "https://example.com/about",
               <<SDocs, SCheckout, SCart, SKeyboards>>)

\* htmlParser.parse results: deduplicated, no subverbs
HtmlLists == { <<>>, <<VAbout, VSearch>> }
\* llmParser.parse results: whatever the Planner answers; <<>> also on failure
LlmLists == { <<>>, <<VProducts, VSearch, VSearchB>> }

\* What a parser's work comes to: the verbs found, or (ok = FALSE) an error
\* raised on the way (the Planner's query fails, its answer is not JSON)
Response(ok, verbs) == [ok |-> ok, verbs |-> verbs]
HtmlResponses == { Response(TRUE, l) : l \in HtmlLists }
LlmResponses == { Response(TRUE, l) : l \in LlmLists } \cup { Response(FALSE, <<>>) }

\* What a parse call gives its caller: a list, or an exception (threw)
Returned(threw, verbs) == [threw |-> threw, verbs |-> verbs]

\* Variant: the Planner's error reaches the caller
llmParseRethrow(available, response) ==
    IF ~available THEN Returned(FALSE, <<>>)
    ELSE IF ~response.ok THEN Returned(TRUE, <<>>)
    ELSE Returned(FALSE, response.verbs)

\* LLMParser.parse: [] when unavailable, [] when anything fails, else the verbs
llmParse(available, response) ==
    IF ~available THEN Returned(FALSE, <<>>)
    ELSE IF ~response.ok THEN Returned(FALSE, <<>>)
    ELSE Returned(FALSE, response.verbs)

\* HTMLParser.parse: synchronous, the verbs found in the HTML
htmlParse(response) == Returned(FALSE, response.verbs)

\* An ExecutionPlan: method and target_url ("" when missing).  `for` is
\* history the code does not keep: the composite name of the verb a Planner's
\* plan was asked for ("" for a plan the Planner did not make)
Plan(m, t) == [method |-> m, target_url |-> t, for |-> ""]
NullPlan == Undefined
\* llmParser.planExecution answers of an available Planner
PlannerPlans == { NullPlan, Plan("navigate", "docs"), Plan("navigate", ""), Plan("form", "") }

TabNames == {"t"}
\* The names nav is run with
NavNames == TabNames \cup {"__proto__"}
NavUrls == {"example.com", "https://example.com/a/b"}

\* <verb, params> of the tab command lines the model runs
ExecArgs ==
    { <<"about", <<>>>>, <<"search", <<>>>>, <<"constructor", <<>>>>, <<"missing", <<>>>>,
      <<"products", <<>>>>, <<"products", <<"docs">>>>, <<"products", <<"checkout">>>>,
      <<"products", <<"add-to-cart">>>>, <<"products", <<"keyboards">>>>,
      <<"products", <<"missing">>>> }

Call(op, arg) == [op |-> op, arg |-> arg]

\* What Browser.fetch comes to for its caller: a page, or an exception
Fetched(threw) == [threw |-> threw]

\* Variant: a failing links run gives an empty page
fetchQuiet(ok) == Fetched(FALSE)

\* Browser.fetch: execAsync rejects when links fails (ok = FALSE), and the
\* rejection is not caught
fetch(ok) == Fetched(~ok)

\* The record of a fetch in `calls`: the call, and its failure
FetchCalls(url, ok) ==
    <<Call("fetch", url)>> \o (IF ok THEN <<>> ELSE <<Call("fetchError", url)>>)

\* argv as commander hands it to a command's action; llm: whether the
\* environment of the process makes llmParser.isAvailable() true
Command(kind, name, url, verb, params, useLlm, llm) ==
    [kind |-> kind, name |-> name, url |-> url, verb |-> verb, params |-> params,
     useLlm |-> useLlm, llm |-> llm]

NoCommand == Command("none", "", "", "", <<>>, FALSE, FALSE)

\* A call of the store: set(name, tab), update(name, updates), delete(name)
StoreCall(store, op, name, arg) == [store |-> store, op |-> op, name |-> name, arg |-> arg]

NoCall == StoreCall("none", "none", "", Undefined)

\* How a call ends: it returns a value, or throws an error
Returns(value) == [threw |-> "", value |-> value]
Throws(error) == [threw |-> error, value |-> Undefined]

\* The lines a command writes with console.error when it ends as `how`
\* (tab.ts:25-26, 147-148, 155-156, 191-192, 242-243, 247; refine.ts:34-35,
\* 43-44, 58-59, 153; nav.ts:19-20, 48-51).  failure: what the error caught
\* at the end of the command says
ConsoleError(how, c, plan, failure) ==
    CASE how = "TabNotFound" ->
           << "Error: Tab \"" \o c.name \o "\" does not exist",
              "Use \"web-cli nav <url> " \o c.name \o "\" to create it" >>
      [] how = "SubverbNotFound" ->
           << "Error: Subverb \"" \o c.params[1] \o "\" not found in container \"" \o c.verb \o "\"",
              "Run \"web-cli tab " \o c.name \o " " \o c.verb \o "\" to see available subverbs" >>
      [] how = "VerbNotFound" /\ c.kind = "tab" ->
           << "Error: Verb \"" \o c.verb \o "\" not found",
              "Run \"web-cli tab " \o c.name \o "\" to see available verbs" >>
      [] how = "VerbNotFound" /\ c.kind # "tab" ->
           << "Error: Container verb \"" \o c.verb \o "\" not found",
              "Run \"web-cli tab " \o c.name \o "\" to see available verbs" >>
      [] how = "PlanFailure" ->
           << "Could not generate execution plan for this verb",
              "Try running with ANTHROPIC_API_KEY set for smarter execution" >>
      [] how = "Unsupported" ->
           << "Execution method \"" \o plan.method \o "\" not yet implemented",
              "Only navigation is currently supported" >>
      [] how = "LlmUnavailable" ->
           << "Error: LLM parser not available",
              "Set ANTHROPIC_API_KEY in .env to use this feature" >>
      [] how = "NotInstalled" ->
           << "Error: links browser is not installed",
              "Please install links to use web-cli" >>
      [] how \in {"FetchError", "Error"} -> << "Error: " \o failure >>
      [] OTHER -> <<>>

\* err.message of what a command can catch: exec's error for a failing
\* links run, or updateTab's error (state.ts:46)
ExecFailure(url) == "Command failed: links -dump \"" \o url \o "\""
UpdateFailure(name) == "Tab \"" \o name \o "\" does not exist"

----------------------------------------------------------------------------
Init ==
    /\ disk = Undefined
    /\ state = Undefined
    /\ clock = 0
    /\ ncmds = 0
    /\ pc = "idle"
    /\ cmd = NoCommand
    /\ tabData = Undefined
    /\ now = 0
    /\ cachedVerb = Undefined
    /\ actualVerb = ""
    /\ executionPlan = Undefined
    /\ targetUrl = ""
    /\ normalizedUrl = ""
    /\ output = <<>>
    /\ outcome = "none"
    /\ message = <<>>
    /\ trace = <<>>
    /\ calls = <<>>
    /\ writes = 0
    /\ files = Undefined
    /\ before = [files |-> Undefined, state |-> Undefined, disk |-> Undefined]
    /\ call = NoCall
    /\ result = Returns(Undefined)
    /\ live = {}
    /\ ncalls = 0
    /\ fs = Undefined
    /\ procs = [p \in {1, 2} |-> [pc |-> "idle", job |-> NoCall, mem |-> Undefined,
                                   existing |-> Undefined, ino |-> 0, text |-> Undefined]]
    /\ hist = [left |-> [k \in {"json", "files"} \X {"a", "b"} |-> Undefined],
               written |-> [f \in {"tabs.json", "tabs/a.json", "tabs/b.json"} |-> Undefined],
               names |-> {}, ops |-> {}, njobs |-> 0, inodes |-> 0]
    /\ html = [links |-> <<>>, forms |-> <<>>, buttons |-> <<>>]
    /\ parsedPage = <<>>
    /\ linkText = ""
    /\ verbName = ""
    /\ race = [store |-> "none", tabs |-> Undefined, ncmds |-> 0,
               run |-> [p \in {1, 2} |->
                          [pc |-> "idle", cmd |-> NoCommand, state |-> Undefined,
                           tabData |-> Undefined, plan |-> Undefined, existing |-> Undefined,
                           updates |-> Undefined, next |-> "idle"]]]

\* What the step just taken leaves on stderr
Said ==
    ConsoleError(outcome', cmd', executionPlan',
                 IF outcome' = "FetchError" THEN ExecFailure(calls'[Len(calls')].arg)
                 ELSE UpdateFailure(cmd'.name))

\* Time passes.  The clock is read where a command writes (nav.ts:38,
\* tab.ts:64, tab.ts:230) and at tab.ts:33, so the minutes that pass between
\* two commands and across the fetch of a discovery give every reading
Tick ==
    /\ clock < MaxClock
    /\ pc \in {"idle", "discover_parse"}
    /\ clock' = clock + 1
    /\ UNCHANGED <<disk, state, ncmds, pc, cmd, locals, output, outcome, message, trace, calls, writes>>
    /\ UNCHANGED libVars

\* A command process starts: stateManager.init() loads tabs.json
Begin(c) ==
    /\ pc = "idle"
    /\ ncmds < MaxCmds
    /\ ncmds' = ncmds + 1
    /\ cmd' = c
    /\ state' = init(disk)
    /\ UNCHANGED <<disk, clock, now, cachedVerb, actualVerb, executionPlan, targetUrl,
                   normalizedUrl, output, trace, calls, writes>>

\* The command ends (return or process.exit)
Finish(how) ==
    /\ pc' = "done"
    /\ outcome' = how

\* The process exits: everything but tabs.json is gone
Exit ==
    /\ pc = "done"
    /\ pc' = "idle"
    /\ cmd' = NoCommand
    /\ state' = Undefined
    /\ tabData' = Undefined
    /\ now' = 0
    /\ cachedVerb' = Undefined
    /\ actualVerb' = ""
    /\ executionPlan' = Undefined
    /\ targetUrl' = ""
    /\ normalizedUrl' = ""
    /\ output' = <<>>
    /\ outcome' = "none"
    /\ message' = <<>>
    /\ trace' = <<>>
    /\ calls' = <<>>
    /\ writes' = 0
    /\ UNCHANGED <<disk, clock, ncmds>>
    /\ UNCHANGED libVars

----------------------------------------------------------------------------
(* nav <url> <name>: src/src/commands/nav.ts *)

\* nav.ts:14-30
NavStart(url, name, installed) ==
    /\ Begin(Command("nav", name, url, "", <<>>, FALSE, FALSE))
    /\ tabData' = Undefined
    /\ IF ~installed
         THEN Finish("NotInstalled")
         ELSE /\ pc' = "nav_fetch"
              /\ outcome' = "running"
    /\ message' = Said
    /\ UNCHANGED libVars

\* nav.ts:33-39
NavFetch(ok) ==
    /\ pc = "nav_fetch"
    /\ calls' = calls \o FetchCalls(NormalizeUrl(cmd.url), ok)
    /\ normalizedUrl' = NormalizeUrl(cmd.url)
    /\ IF ~fetch(ok).threw
         THEN /\ state' = setTab(state, cmd.name, NavTab(NormalizeUrl(cmd.url), clock))
              /\ disk' = save(state')
              /\ writes' = writes + 1
              /\ Finish("TabCreated")
         ELSE /\ Finish("FetchError")
              /\ UNCHANGED <<disk, state, writes>>
    /\ UNCHANGED <<clock, ncmds, cmd, tabData, now, cachedVerb, actualVerb, executionPlan,
                   targetUrl, output, trace>>
    /\ message' = Said
    /\ UNCHANGED libVars


----------------------------------------------------------------------------
(* Verb caches and plans: src/src/commands/tab.ts *)

\* A Record<string, Verb> is the list of its entries [key, value] in
\* insertion order, which is the order Object.values gives for names that
\* are not numbers.

\* cache[key]: the own property, else what Object.prototype gives, else undefined
JsGet(cache, key) ==
    IF \E i \in 1..Len(cache) : cache[i].key = key
      THEN cache[CHOOSE i \in 1..Len(cache) : cache[i].key = key].value
      ELSE IF key \in ObjectPrototypeKeys THEN InheritedFunction ELSE Undefined

\* cache[key] = v: an existing key keeps its place
CacheSet(cache, key, v) ==
    IF \E i \in 1..Len(cache) : cache[i].key = key
      THEN [cache EXCEPT ![CHOOSE i \in 1..Len(cache) : cache[i].key = key].value = v]
      ELSE Append(cache, [key |-> key, value |-> v])

RECURSIVE CacheSetAll(_, _)
\* tab.ts:61  verbs.forEach(v => verbCache[v.name] = v)
CacheSetAll(cache, verbs) ==
    IF verbs = <<>> THEN cache
    ELSE CacheSetAll(CacheSet(cache, Head(verbs).name, Head(verbs)), Tail(verbs))

\* tab.ts:60-61
BuildVerbCache(verbs) == CacheSetAll(<<>>, verbs)

\* tab.ts:42  Object.values(tabData.verb_cache)
ObjectValues(cache) == [i \in 1..Len(cache) |-> cache[i].value]

\* Variant: a cache still counts as valid at the instant it expires
CacheValidInclusive(tab, t) ==
    "verb_cache_expires" \in DOMAIN tab /\ t <= tab.verb_cache_expires

\* tab.ts:34-35
CacheValid(tab, t) == "verb_cache_expires" \in DOMAIN tab /\ t < tab.verb_cache_expires

\* tab.ts:40
UseCache(tab, t, useLlm) == CacheValid(tab, t) /\ "verb_cache" \in DOMAIN tab /\ ~useLlm

\* Variant: caching the verbs also stamps the tab
DiscoveryUpdatesStamped(verbCache, t) ==
    [set |-> [verb_cache |-> verbCache, verb_cache_expires |-> t + CACHE_TTL,
              last_updated |-> t],
     unset |-> {}]

\* tab.ts:62-65
DiscoveryUpdates(verbCache, t) ==
    [set |-> [verb_cache |-> verbCache, verb_cache_expires |-> t + CACHE_TTL], unset |-> {}]

\* tab.ts:140  subverbs.find(sv => sv.name === subverbName)
FindSubverb(subverbs, n) ==
    IF \E i \in 1..Len(subverbs) : subverbs[i].name = n
      THEN subverbs[CHOOSE i \in 1..Len(subverbs) :
                /\ subverbs[i].name = n
                /\ \A j \in 1..(i - 1) : subverbs[j].name # n]
      ELSE Undefined

\* Variant: a verb with a target of its own is not taken for a container
IsContainerWithoutTarget(v) ==
    v # Undefined /\ Len(v.subverbs) > 0 /\ ~(v.type = "navigate" /\ v.target # "")

\* tab.ts:123
IsContainer(v) == v # Undefined /\ Len(v.subverbs) > 0

\* tab.ts:119-158: which verb becomes the active verb, or how the lookup ends
ResolveVerb(tab, verb, params) ==
    LET root == IF "verb_cache" \in DOMAIN tab THEN JsGet(tab.verb_cache, verb) ELSE Undefined
    IN  IF IsContainer(root)
          THEN IF params = <<>>
                 THEN [kind |-> "ContainerList", verb |-> root, actual |-> verb]
                 ELSE LET sub == FindSubverb(root.subverbs, params[1])
                      IN  IF sub # Undefined
                            THEN [kind |-> "Active", verb |-> sub,
                                  actual |-> verb \o "." \o params[1]]
                            ELSE [kind |-> "SubverbNotFound", verb |-> root, actual |-> verb]
          ELSE IF root = Undefined
                 THEN [kind |-> "VerbNotFound", verb |-> root, actual |-> verb]
                 ELSE [kind |-> "Active", verb |-> root, actual |-> verb]

\* Variant: only an absolute target makes a verb deterministic
IsDeterministicAbsolute(v) == v.type = "navigate" /\ IsHttpUrl(v.target)

\* tab.ts:165
IsDeterministic(v) == v.type = "navigate" /\ v.target # ""

\* tab.ts:168-172
DeterministicPlan(v) == Plan("navigate", v.target)

\* tab.ts:178
PlanCacheKey(verb, actual, url) == verb \o "@" \o url

\* Variant: a cached plan is reused only when it can be executed
PlanLookupNavigable(tab, key) ==
    IF /\ "execution_plan_cache" \in DOMAIN tab /\ key \in DOMAIN tab.execution_plan_cache
       /\ tab.execution_plan_cache[key].method = "navigate"
       /\ tab.execution_plan_cache[key].target_url # ""
      THEN tab.execution_plan_cache[key]
      ELSE Undefined

\* tab.ts:179  tabData.execution_plan_cache?.[planCacheKey]
PlanLookup(tab, key) ==
    IF "execution_plan_cache" \in DOMAIN tab /\ key \in DOMAIN tab.execution_plan_cache
      THEN tab.execution_plan_cache[key]
      ELSE Undefined

\* Variant: an unavailable Planner guesses a plan from the verb's type
planExecutionGuess(verb, available, answer) ==
    IF ~available THEN Plan(verb.type, verb.target) ELSE answer

\* llm-parser planExecution: the plan an unavailable Planner falls back to,
\* else the Planner's answer (null when the call fails)
planExecution(verb, available, answer) ==
    IF ~available
      THEN IF verb.target # "" /\ verb.type = "navigate"
             THEN Plan("navigate", verb.target)
             ELSE NullPlan
      ELSE answer

\* Variant: the plan is put into a fresh object
PlanCacheFresh(tab, key, plan) == ObjectSet(Undefined, key, plan)

\* tab.ts:197-198
PlanCacheWith(tab, key, plan) ==
    ObjectSet(IF "execution_plan_cache" \in DOMAIN tab THEN tab.execution_plan_cache ELSE Undefined,
              key, plan)

\* tab.ts:199-201
PlanCacheUpdates(planCache) == [set |-> [execution_plan_cache |-> planCache], unset |-> {}]

\* tab.ts:208
IsNavigatePlan(plan) == plan.method = "navigate" /\ plan.target_url # ""

\* Variant: a relative target is resolved against the current page
ResolveTargetAgainstPage(target, currentUrl) ==
    IF IsHttpUrl(target) THEN target
    ELSE IF StartsWith(target, "/") THEN UrlOrigin(currentUrl) \o target
    ELSE UrlDirectory(currentUrl) \o target

\* tab.ts:210-220
ResolveTarget(target, currentUrl) ==
    IF IsHttpUrl(target) THEN target ELSE UrlHref(target, UrlOrigin(currentUrl))

\* Variant: the expiry of the verbs cached for the old page is kept
NavigateUpdatesKeepExpiry(url, t) ==
    [set |-> [current_url |-> url, last_updated |-> t],
     unset |-> {"verb_cache", "execution_plan_cache"}]

\* Variant: the verbs cached for the old page are kept
NavigateUpdatesKeepVerbs(url, t) ==
    [set |-> [current_url |-> url, last_updated |-> t],
     unset |-> {"execution_plan_cache"}]

\* Variant: the plans cached for the old page are kept
NavigateUpdatesKeepPlans(url, t) ==
    [set |-> [current_url |-> url, last_updated |-> t],
     unset |-> {"verb_cache", "verb_cache_expires"}]

\* tab.ts:228-234
NavigateUpdates(url, t) ==
    [set |-> [current_url |-> url, last_updated |-> t],
     unset |-> {"verb_cache", "verb_cache_expires", "execution_plan_cache"}]

----------------------------------------------------------------------------
(* tab <name> [verb] [params...]: src/src/commands/tab.ts *)

\* tab.ts:18-31
TabStart(name, verb, params, useLlm, llm) ==
    /\ Begin(Command("tab", name, "", verb, params, useLlm, llm))
    /\ tabData' = getTab(state', name)
    /\ IF tabData' = Undefined
         THEN Finish("TabNotFound")
         ELSE /\ pc' = IF verb = "" THEN "discover" ELSE "resolve"
              /\ outcome' = "running"
    /\ message' = Said
    /\ UNCHANGED libVars

\* tab.ts:40-42: the cached verbs are listed
DiscoverCached ==
    /\ pc = "discover"
    /\ UseCache(tabData, clock, cmd.useLlm)
    /\ now' = clock
    /\ output' = ObjectValues(tabData.verb_cache)
    /\ Finish("DiscoveryCached")
    /\ UNCHANGED <<disk, state, clock, ncmds, cmd, tabData, cachedVerb, actualVerb,
                   executionPlan, targetUrl, normalizedUrl, trace, calls, writes>>
    /\ message' = Said
    /\ UNCHANGED libVars

\* tab.ts:43-45: the page is fetched
DiscoverFetch(ok) ==
    /\ pc = "discover"
    /\ ~UseCache(tabData, clock, cmd.useLlm)
    /\ now' = clock
    /\ calls' = calls \o FetchCalls(tabData.current_url, ok)
    /\ IF ~fetch(ok).threw
         THEN pc' = "discover_parse" /\ UNCHANGED outcome
         ELSE Finish("FetchError")
    /\ UNCHANGED <<disk, state, clock, ncmds, cmd, tabData, cachedVerb, actualVerb,
                   executionPlan, targetUrl, normalizedUrl, output, trace, writes>>
    /\ message' = Said
    /\ UNCHANGED libVars

\* Variant: --use-llm alone sends the page to the Planner's parse, which
\* returns no verbs when the Planner is not available
DiscoverParseByFlag(response) ==
    /\ pc = "discover_parse"
    /\ LET byLlm  == cmd.useLlm
           parsed == IF byLlm THEN llmParse(cmd.llm, response) ELSE htmlParse(response)
       IN  /\ IF byLlm THEN response \in LlmResponses ELSE response \in HtmlResponses
           /\ calls' = Append(calls, Call(IF byLlm THEN (IF response.ok THEN "parse" ELSE "parseError")
                                                   ELSE "extract",
                                          tabData.current_url))
           /\ IF ~parsed.threw /\ cmd.name \in DOMAIN state
                THEN /\ state' = updateTab(state, cmd.name,
                                           DiscoveryUpdates(BuildVerbCache(parsed.verbs), clock))
                     /\ disk' = save(state')
                     /\ writes' = writes + 1
                     /\ output' = parsed.verbs
                     /\ Finish("Discovered")
                ELSE /\ Finish("Error")
                     /\ UNCHANGED <<disk, state, writes, output>>
    /\ UNCHANGED <<clock, ncmds, cmd, locals, trace>>
    /\ message' = Said
    /\ UNCHANGED libVars

\* tab.ts:48-66: the page is parsed and the verbs are cached
DiscoverParse(response) ==
    /\ pc = "discover_parse"
    /\ LET byLlm  == cmd.useLlm /\ cmd.llm
           parsed == IF byLlm THEN llmParse(TRUE, response) ELSE htmlParse(response)
       IN  /\ IF byLlm THEN response \in LlmResponses ELSE response \in HtmlResponses
           /\ calls' = Append(calls, Call(IF byLlm THEN (IF response.ok THEN "parse" ELSE "parseError")
                                                   ELSE "extract",
                                          tabData.current_url))
           /\ IF ~parsed.threw /\ cmd.name \in DOMAIN state
                THEN /\ state' = updateTab(state, cmd.name,
                                           DiscoveryUpdates(BuildVerbCache(parsed.verbs), clock))
                     /\ disk' = save(state')
                     /\ writes' = writes + 1
                     /\ output' = parsed.verbs
                     /\ Finish("Discovered")
                ELSE /\ Finish("Error")
                     /\ UNCHANGED <<disk, state, writes, output>>
    /\ UNCHANGED <<clock, ncmds, cmd, locals, trace>>
    /\ message' = Said
    /\ UNCHANGED libVars

\* Variant: verbs whose cache has expired are not found
ResolveUnexpired ==
    /\ pc = "resolve"
    /\ LET r   == ResolveVerb(IF CacheValid(tabData, clock) THEN tabData
                              ELSE [f \in DOMAIN tabData \ {"verb_cache"} |-> tabData[f]],
                             cmd.verb, cmd.params)
           key == PlanCacheKey(cmd.verb, r.actual, tabData.current_url)
           sub == IF r.actual = cmd.verb THEN <<>> ELSE <<"SubverbResolve">>
       IN  /\ cachedVerb' = r.verb
           /\ actualVerb' = r.actual
           /\ CASE r.kind = "ContainerList" ->
                     /\ output' = r.verb.subverbs
                     /\ trace' = <<"ContainerList">>
                     /\ Finish("ContainerList")
                     /\ UNCHANGED executionPlan
                [] r.kind = "SubverbNotFound" ->
                     /\ trace' = <<"NotFound">>
                     /\ Finish("SubverbNotFound")
                     /\ UNCHANGED <<output, executionPlan>>
                [] r.kind = "VerbNotFound" ->
                     /\ trace' = <<"NotFound">>
                     /\ Finish("VerbNotFound")
                     /\ UNCHANGED <<output, executionPlan>>
                [] r.kind = "Active" /\ IsDeterministic(r.verb) ->
                     /\ executionPlan' = DeterministicPlan(r.verb)
                     /\ trace' = sub \o <<"DeterministicExecute">>
                     /\ pc' = "execute"
                     /\ UNCHANGED <<output, outcome>>
                [] r.kind = "Active" /\ ~IsDeterministic(r.verb) ->
                     /\ executionPlan' = PlanLookup(tabData, key)
                     /\ trace' = sub \o <<"PlanLookup">>
                     /\ pc' = IF executionPlan' # Undefined THEN "execute" ELSE "plan_fetch"
                     /\ UNCHANGED <<output, outcome>>
    /\ UNCHANGED <<disk, state, clock, ncmds, cmd, tabData, now, targetUrl, normalizedUrl,
                   calls, writes>>
    /\ message' = Said
    /\ UNCHANGED libVars

\* tab.ts:119-182: the active verb and its plan, up to the first await
Resolve ==
    /\ pc = "resolve"
    /\ LET r   == ResolveVerb(tabData, cmd.verb, cmd.params)
           key == PlanCacheKey(cmd.verb, r.actual, tabData.current_url)
           sub == IF r.actual = cmd.verb THEN <<>> ELSE <<"SubverbResolve">>
       IN  /\ cachedVerb' = r.verb
           /\ actualVerb' = r.actual
           /\ CASE r.kind = "ContainerList" ->
                     /\ output' = r.verb.subverbs
                     /\ trace' = <<"ContainerList">>
                     /\ Finish("ContainerList")
                     /\ UNCHANGED executionPlan
                [] r.kind = "SubverbNotFound" ->
                     /\ trace' = <<"NotFound">>
                     /\ Finish("SubverbNotFound")
                     /\ UNCHANGED <<output, executionPlan>>
                [] r.kind = "VerbNotFound" ->
                     /\ trace' = <<"NotFound">>
                     /\ Finish("VerbNotFound")
                     /\ UNCHANGED <<output, executionPlan>>
                [] r.kind = "Active" /\ IsDeterministic(r.verb) ->
                     /\ executionPlan' = DeterministicPlan(r.verb)
                     /\ trace' = sub \o <<"DeterministicExecute">>
                     /\ pc' = "execute"
                     /\ UNCHANGED <<output, outcome>>
                [] r.kind = "Active" /\ ~IsDeterministic(r.verb) ->
                     /\ executionPlan' = PlanLookup(tabData, key)
                     /\ trace' = sub \o <<"PlanLookup">>
                     /\ pc' = IF executionPlan' # Undefined THEN "execute" ELSE "plan_fetch"
                     /\ UNCHANGED <<output, outcome>>
    /\ UNCHANGED <<disk, state, clock, ncmds, cmd, tabData, now, targetUrl, normalizedUrl,
                   calls, writes>>
    /\ message' = Said
    /\ UNCHANGED libVars

\* tab.ts:185: the current page is fetched for planning
PlanFetch(ok) ==
    /\ pc = "plan_fetch"
    /\ calls' = calls \o FetchCalls(tabData.current_url, ok)
    /\ IF ~fetch(ok).threw
         THEN pc' = "plan_request" /\ UNCHANGED outcome
         ELSE Finish("FetchError")
    /\ UNCHANGED <<disk, state, clock, ncmds, cmd, locals, output, trace, writes>>
    /\ message' = Said
    /\ UNCHANGED libVars

\* tab.ts:188-201: the Planner is asked and its plan is cached
PlanRequest(answer) ==
    /\ pc = "plan_request"
    /\ LET asked == planExecution(cachedVerb, cmd.llm, answer)
           plan == IF asked = NullPlan THEN NullPlan ELSE [asked EXCEPT !.for = actualVerb]
           key  == PlanCacheKey(cmd.verb, actualVerb, tabData.current_url)
           planCache == PlanCacheWith(tabData, key, plan)
       IN  /\ calls' = Append(calls, Call("plan", cachedVerb.name))
           /\ trace' = Append(trace, "PlanRequest")
           /\ executionPlan' = plan
           /\ IF plan = NullPlan
                THEN /\ Finish("PlanFailure")
                     /\ UNCHANGED <<disk, state, writes, tabData>>
                ELSE IF cmd.name \in DOMAIN state
                  THEN /\ state' = updateTab(state, cmd.name, PlanCacheUpdates(planCache))
                       /\ disk' = save(state')
                       /\ writes' = writes + 1
                       \* planCache is tabData's own object when it had one
                       /\ tabData' = IF "execution_plan_cache" \in DOMAIN tabData
                                       THEN [tabData EXCEPT !.execution_plan_cache = planCache]
                                       ELSE tabData
                       /\ pc' = "execute"
                       /\ UNCHANGED outcome
                  ELSE /\ Finish("Error")
                       /\ UNCHANGED <<disk, state, writes, tabData>>
    /\ UNCHANGED <<clock, ncmds, cmd, now, cachedVerb, actualVerb, targetUrl, normalizedUrl,
                   output>>
    /\ message' = Said
    /\ UNCHANGED libVars

\* Variant: a plan that cannot be executed is planned again
ExecuteRetry ==
    /\ pc = "execute"
    /\ IF IsNavigatePlan(executionPlan)
         THEN /\ targetUrl' = ResolveTarget(executionPlan.target_url, tabData.current_url)
              /\ trace' = Append(trace, "ExecuteNavigate")
              /\ pc' = "execute_fetch"
              /\ UNCHANGED outcome
         ELSE /\ trace' = Append(trace, "ExecuteUnsupported")
              /\ pc' = "plan_fetch"
              /\ UNCHANGED <<outcome, targetUrl>>
    /\ UNCHANGED <<disk, state, clock, ncmds, cmd, tabData, now, cachedVerb, actualVerb,
                   executionPlan, normalizedUrl, output, calls, writes>>
    /\ message' = Said
    /\ UNCHANGED libVars

\* tab.ts:208-222 and 241-244: the dispatch on the plan
Execute ==
    /\ pc = "execute"
    /\ IF IsNavigatePlan(executionPlan)
         THEN /\ targetUrl' = ResolveTarget(executionPlan.target_url, tabData.current_url)
              /\ trace' = Append(trace, "ExecuteNavigate")
              /\ pc' = "execute_fetch"
              /\ UNCHANGED outcome
         ELSE /\ trace' = Append(trace, "ExecuteUnsupported")
              /\ Finish("Unsupported")
              /\ UNCHANGED targetUrl
    /\ UNCHANGED <<disk, state, clock, ncmds, cmd, tabData, now, cachedVerb, actualVerb,
                   executionPlan, normalizedUrl, output, calls, writes>>
    /\ message' = Said
    /\ UNCHANGED libVars

\* tab.ts:225-234: the target is fetched and the tab moves to it
ExecuteFetch(ok) ==
    /\ pc = "execute_fetch"
    /\ calls' = calls \o FetchCalls(targetUrl, ok)
    /\ IF fetch(ok).threw
         THEN /\ Finish("FetchError")
              /\ UNCHANGED <<disk, state, writes>>
         ELSE IF cmd.name \in DOMAIN state
           THEN /\ state' = updateTab(state, cmd.name, NavigateUpdates(targetUrl, clock))
                /\ disk' = save(state')
                /\ writes' = writes + 1
                /\ Finish("Navigated")
           ELSE /\ Finish("Error")
                /\ UNCHANGED <<disk, state, writes>>
    /\ UNCHANGED <<clock, ncmds, cmd, locals, output, trace>>
    /\ message' = Said
    /\ UNCHANGED libVars

----------------------------------------------------------------------------
(* refine <name> [verb] <guidance>: src/src/commands/refine.ts *)

\* The container names the model refines ("" : no container, a full refine)
RefineArgs == {"", "products", "missing"}

\* llmParser.parse results for a guidance scoped to a container
SubverbLists == { <<>>, <<SMech, SDocs>> }

\* refine.ts:54  the verbs searched for the container
ExistingVerbs(tab) ==
    IF "verb_cache" \in DOMAIN tab THEN ObjectValues(tab.verb_cache) ELSE <<>>

\* Variant: an empty result leaves the container's subverbs as they were
WithSubverbsUnlessEmpty(container, subverbs) ==
    IF subverbs = <<>> THEN container ELSE [container EXCEPT !.subverbs = subverbs]

\* refine.ts:73  container.subverbs = subverbs
WithSubverbs(container, subverbs) == [container EXCEPT !.subverbs = subverbs]

\* Variant: the refined container is cached alone
ScopedVerbCacheAlone(tab, containerVerb, container) == CacheSet(<<>>, containerVerb, container)

\* refine.ts:76-77
ScopedVerbCache(tab, containerVerb, container) ==
    CacheSet(IF "verb_cache" \in DOMAIN tab THEN tab.verb_cache ELSE <<>>, containerVerb, container)

\* Variant: new verbs invalidate the plans made for the old ones
RefineUpdatesClearPlans(verbCache, t) ==
    [set |-> [verb_cache |-> verbCache, verb_cache_expires |-> t + CACHE_TTL],
     unset |-> {"execution_plan_cache"}]

\* refine.ts:78-81 and 128-131
RefineUpdates(verbCache, t) ==
    [set |-> [verb_cache |-> verbCache, verb_cache_expires |-> t + CACHE_TTL], unset |-> {}]

\* refine.ts:30-61
RefineStart(name, containerVerb, llm) ==
    /\ Begin(Command("refine", name, "", containerVerb, <<>>, FALSE, llm))
    /\ tabData' = getTab(state', name)
    /\ IF tabData' = Undefined
         THEN Finish("TabNotFound")
         ELSE IF ~llm
           THEN Finish("LlmUnavailable")
           ELSE IF containerVerb # "" /\ FindSubverb(ExistingVerbs(tabData'), containerVerb) = Undefined
             THEN Finish("VerbNotFound")
             ELSE /\ pc' = "refine_fetch"
                  /\ outcome' = "running"
    /\ message' = Said
    /\ UNCHANGED libVars

\* refine.ts:64 and 115
RefineFetch(ok) ==
    /\ pc = "refine_fetch"
    /\ calls' = calls \o FetchCalls(tabData.current_url, ok)
    /\ IF ~fetch(ok).threw
         THEN pc' = "refine_parse" /\ UNCHANGED outcome
         ELSE Finish("FetchError")
    /\ UNCHANGED <<disk, state, clock, ncmds, cmd, locals, output, trace, writes>>
    /\ message' = Said
    /\ UNCHANGED libVars

\* refine.ts:67-83 (a container is given) and 118-131 (none is)
RefineParse(verbs) ==
    /\ pc = "refine_parse"
    /\ calls' = Append(calls, Call("parse", tabData.current_url))
    /\ output' = verbs
    /\ IF cmd.verb # ""
         THEN /\ verbs \in SubverbLists
              /\ LET container == WithSubverbs(FindSubverb(ExistingVerbs(tabData), cmd.verb), verbs)
                     verbCache == ScopedVerbCache(tabData, cmd.verb, container)
                 IN  /\ cachedVerb' = container
                     /\ state' = updateTab(state, cmd.name, RefineUpdates(verbCache, clock))
              /\ disk' = save(state')
              /\ writes' = writes + 1
              /\ Finish("Refined")
         ELSE /\ verbs \in LlmLists
              /\ UNCHANGED cachedVerb
              /\ IF Len(verbs) = 0
                   THEN /\ Finish("NoVerbs")
                        /\ UNCHANGED <<disk, state, writes>>
                   ELSE /\ state' = updateTab(state, cmd.name, RefineUpdates(BuildVerbCache(verbs), clock))
                        /\ disk' = save(state')
                        /\ writes' = writes + 1
                        /\ Finish("Refined")
    /\ UNCHANGED <<clock, ncmds, cmd, tabData, now, actualVerb, executionPlan, targetUrl,
                   normalizedUrl, trace>>
    /\ message' = Said
    /\ UNCHANGED libVars

Next ==
    \/ Tick
    \/ \E url \in NavUrls, name \in NavNames, installed \in BOOLEAN : NavStart(url, name, installed)
    \/ \E ok \in BOOLEAN : NavFetch(ok)
    \/ \E name \in TabNames, useLlm \in BOOLEAN, llm \in BOOLEAN :
          TabStart(name, "", <<>>, useLlm, llm)
    \/ \E name \in TabNames, a \in ExecArgs, llm \in BOOLEAN :
          TabStart(name, a[1], a[2], FALSE, llm)
    \/ DiscoverCached
    \/ \E ok \in BOOLEAN : DiscoverFetch(ok)
    \/ \E response \in LlmResponses \cup HtmlResponses : DiscoverParse(response)
    \/ Resolve
    \/ \E ok \in BOOLEAN : PlanFetch(ok)
    \/ \E answer \in PlannerPlans : PlanRequest(answer)
    \/ Execute
    \/ \E ok \in BOOLEAN : ExecuteFetch(ok)
    \/ \E name \in TabNames, containerVerb \in RefineArgs, llm \in BOOLEAN :
          RefineStart(name, containerVerb, llm)
    \/ \E ok \in BOOLEAN : RefineFetch(ok)
    \/ \E verbs \in LlmLists \cup SubverbLists : RefineParse(verbs)
    \/ Exit

Spec == Init /\ [][Next]_vars

----------------------------------------------------------------------------
(* The store with one file per tab: src/unnamed/part_005 *)

\* A JavaScript object handed to the store: the properties that have a
\* value (set) and the keys given as undefined (unset)
JsObject(set, unset) == [set |-> set, unset |-> unset]

\* JSON.stringify(obj): properties that are undefined are left out
JsonStringify(obj) == [f \in (DOMAIN obj.set \ obj.unset) |-> obj.set[f]]

\* JSON.parse(text): every property read has a value
JsonParse(text) == JsObject(text, {})

\* The characters of [a-zA-Z0-9_-]
NameAlphabet == "abcdefghijklmnopqrstuvwxyzABCDEFGHIJKLMNOPQRSTUVWXYZ0123456789_-"
NameChars == { SubSeq(NameAlphabet, i, i) : i \in 1..Len(NameAlphabet) }

\* Variant: up to 51 characters pass
MatchesTabNamePatternTo51(name) ==
    /\ Len(name) >= 1 /\ Len(name) <= 51
    /\ \A i \in 1..Len(name) : SubSeq(name, i, i) \in NameChars

\* TAB_NAME_PATTERN.test(name): /^[a-zA-Z0-9_-]{1,50}$/
MatchesTabNamePattern(name) ==
    /\ Len(name) >= 1 /\ Len(name) <= 50
    /\ \A i \in 1..Len(name) : SubSeq(name, i, i) \in NameChars

\* validateTabName: throws unless the name matches
validateTabName(name) == IF MatchesTabNamePattern(name) THEN Returns(Undefined) ELSE Throws("InvalidTabName")

\* part_005:7  TABS_DIR, as a path under ~/.web-cli
TABS_DIR == "tabs"

RECURSIVE SplitPath(_, _, _)
\* The segments of a path: the stretches between its slashes
SplitPath(p, i, segment) ==
    LET slashes == { k \in i..Len(p) : SubSeq(p, k, k) = "/" }
    IN  IF i > Len(p) THEN <<segment>>
        ELSE IF slashes = {} THEN <<segment \o SubSeq(p, i, Len(p))>>
        ELSE LET k == CHOOSE k \in slashes : \A j \in slashes : k <= j
             IN  <<segment \o SubSeq(p, i, k - 1)>> \o SplitPath(p, k + 1, "")

RECURSIVE NormalizeSegments(_, _)
\* path.normalize: "" and "." segments go, ".." takes the segment before it
NormalizeSegments(segments, out) ==
    IF segments = <<>> THEN out
    ELSE LET s == Head(segments)
         IN  IF s = "" \/ s = "."
               THEN NormalizeSegments(Tail(segments), out)
             ELSE IF s = ".."
               THEN IF out # <<>> /\ out[Len(out)] # ".."
                      THEN NormalizeSegments(Tail(segments), SubSeq(out, 1, Len(out) - 1))
                      ELSE NormalizeSegments(Tail(segments), Append(out, ".."))
             ELSE NormalizeSegments(Tail(segments), Append(out, s))

RECURSIVE JoinSegments(_)
JoinSegments(segments) ==
    IF segments = <<>> THEN ""
    ELSE IF Len(segments) = 1 THEN segments[1]
    ELSE segments[1] \o "/" \o JoinSegments(Tail(segments))

\* path.join(a, b): the two joined by a slash, then normalized
PathJoin(a, b) == JoinSegments(NormalizeSegments(SplitPath(a \o "/" \o b, 1, ""), <<>>))

\* getTabPath: path.join(TABS_DIR, `${name}.json`)
getTabPath(name) == PathJoin(TABS_DIR, name \o ".json")

\* path.dirname / path.basename of a normalized path
DirName(p) ==
    LET segments == SplitPath(p, 1, "")
    IN  JoinSegments(SubSeq(segments, 1, Len(segments) - 1))
BaseName(p) == LET segments == SplitPath(p, 1, "") IN segments[Len(segments)]

EndsWith(s, suffix) ==
    Len(s) >= Len(suffix) /\ SubSeq(s, Len(s) - Len(suffix) + 1, Len(s)) = suffix

\* fs.writeFile / fs.unlink on the tabs directory
WriteFile(dir, path, text) == [f \in (DOMAIN dir \cup {path}) |-> IF f = path THEN text ELSE dir[f]]
Unlink(dir, path) == [f \in (DOMAIN dir \ {path}) |-> dir[f]]

\* What a call of the store comes to: the directory after it and its result
Outcome(dir, res) == [files |-> dir, result |-> res]

\* getTab: the parsed file, undefined when it cannot be read
getTabFile(dir, name) ==
    IF getTabPath(name) \in DOMAIN dir
      THEN Returns(JsonParse(dir[getTabPath(name)]))
      ELSE Returns(Undefined)

\* Variant: set keeps the properties of the existing file that the tab does not name
setTabFileMerging(dir, name, tab) ==
    IF validateTabName(name).threw # ""
      THEN Outcome(dir, validateTabName(name))
      ELSE Outcome(WriteFile(dir, getTabPath(name),
                             SpreadMerge(IF getTabPath(name) \in DOMAIN dir
                                           THEN dir[getTabPath(name)] ELSE Undefined,
                                         JsObject(JsonStringify(tab), {}))),
                   Returns(Undefined))

\* setTab
setTabFile(dir, name, tab) ==
    IF validateTabName(name).threw # ""
      THEN Outcome(dir, validateTabName(name))
      ELSE Outcome(WriteFile(dir, getTabPath(name), JsonStringify(tab)), Returns(Undefined))

\* updateTab
updateTabFile(dir, name, updates) ==
    LET existing == getTabFile(dir, name).value
    IN  IF existing = Undefined
          THEN Outcome(dir, Throws("DoesNotExist"))
          ELSE Outcome(WriteFile(dir, getTabPath(name), SpreadMerge(existing.set, updates)),
                       Returns(Undefined))

\* Variant: a missing file is an error
deleteTabFileStrict(dir, name) ==
    IF getTabPath(name) \in DOMAIN dir
      THEN Outcome(Unlink(dir, getTabPath(name)), Returns(Undefined))
      ELSE Outcome(dir, Throws("ENOENT"))

\* deleteTab: errors of unlink are ignored
deleteTabFile(dir, name) == Outcome(Unlink(dir, getTabPath(name)), Returns(Undefined))

\* listTabs: the .json entries readdir(TABS_DIR) gives, without the extension
\* (the order readdir gives is not specified: a set)
listTabsFile(dir) ==
    LET entries == { BaseName(p) : p \in { q \in DOMAIN dir : DirName(q) = TABS_DIR } }
    IN  { SubSeq(f, 1, Len(f) - 5) : f \in { g \in entries : EndsWith(g, ".json") } }

RECURSIVE CollectTabs(_, _, _)
\* getAllTabs: for (const name of tabNames) tabs[name] = tab
CollectTabs(dir, names, tabs) ==
    IF names = {} THEN tabs
    ELSE LET name == CHOOSE n \in names : TRUE
             tab  == getTabFile(dir, name).value
         IN  CollectTabs(dir, names \ {name},
                         IF tab # Undefined THEN ObjectSet(tabs, name, tab) ELSE tabs)

getAllTabsFile(dir) == CollectTabs(dir, listTabsFile(dir), Undefined)

----------------------------------------------------------------------------
(* The store called on its own, any calls in any order.  Both              *)
(* StateManagers of the repository are called: the one with a file per tab *)
(* (files) and the one with the single tabs.json (state, disk).            *)

Name50 == "abcdefghijklmnopqrstuvwxyzABCDEFGHIJKLMNOPQRSTUVWX"
Name51 == Name50 \o "Y"

\* Names the file store is called with
FileNames == {"t", "__proto__", Name50, "", "a b", "a/b", "a.b", "a@b", Name51, "./t"}

\* Names the tabs.json store is called with
JsonNames == {"t", "constructor", "__proto__"}

\* Tabs handed to set: a fresh tab, a tab with nested verbs, a tab whose
\* verb_cache is given as undefined
StoreTabs ==
    { JsObject(NavTab(HomeUrl, 0), {}),
      JsObject([current_url |-> HomeUrl, last_updated |-> 1,
                verb_cache |-> BuildVerbCache(<<VProducts>>), verb_cache_expires |-> 6], {}),
      JsObject(NavTab("https://example.com/about", 2), {"verb_cache"}) }

\* Partial tabs handed to update
StoreUpdates ==
    { NavigateUpdates("https://example.com/docs", 3),
      PlanCacheUpdates(ObjectSet(Undefined, "search@https://example.com", Plan("form", ""))) }

\* A call of the file store
FileCall(op, name, arg, o) ==
    /\ ncalls < MaxCalls
    /\ ncalls' = ncalls + 1
    /\ call' = StoreCall("files", op, name, arg)
    /\ before' = [files |-> files, state |-> state, disk |-> disk]
    /\ files' = o.files
    /\ result' = o.result
    /\ UNCHANGED <<disk, state, commandVars, concVars, extractVars, raceVars>>

FileSet(name, tab) ==
    /\ FileCall("set", name, tab, setTabFile(files, name, tab))
    /\ live' = IF setTabFile(files, name, tab).result.threw = "" THEN live \cup {name} ELSE live

FileUpdate(name, updates) ==
    /\ FileCall("update", name, updates, updateTabFile(files, name, updates))
    /\ UNCHANGED live

\* live: a name is deleted when the file it was set to is the one unlinked
FileDelete(name) ==
    /\ FileCall("delete", name, Undefined, deleteTabFile(files, name))
    /\ live' = { n \in live : getTabPath(n) # getTabPath(name) }

\* A call of the tabs.json store
JsonCall(op, name, arg, st, res) ==
    /\ ncalls < MaxCalls
    /\ ncalls' = ncalls + 1
    /\ call' = StoreCall("json", op, name, arg)
    /\ before' = [files |-> files, state |-> state, disk |-> disk]
    /\ state' = st
    /\ disk' = IF res.threw = "" THEN save(st) ELSE disk
    /\ result' = res
    /\ UNCHANGED <<files, live, commandVars, concVars, extractVars, raceVars>>

\* state.ts:38-41
JsonSet(name, tab) ==
    LET st == setTab(state, name, JsonStringify(tab))
    IN  JsonCall("set", name, tab, st, Returns(Undefined))

\* state.ts:43-50
JsonUpdate(name, updates) ==
    IF getTab(state, name) = Undefined
      THEN JsonCall("update", name, updates, state, Throws("DoesNotExist"))
      ELSE JsonCall("update", name, updates, updateTab(state, name, updates), Returns(Undefined))

\* state.ts:52-55
JsonDelete(name) ==
    LET st == deleteTab(state, name)
    IN  JsonCall("delete", name, Undefined, st, Returns(Undefined))

\* part_005:24-27  a new StateManager and init(): mkdir(TABS_DIR, { recursive: true })
FileInit ==
    FileCall("init", "", Undefined, Outcome(files, Returns(Undefined))) /\ UNCHANGED live

\* state.ts:10-28  a new StateManager and init(): mkdir, then this.state is
\* what tabs.json holds
JsonInit ==
    /\ ncalls < MaxCalls
    /\ ncalls' = ncalls + 1
    /\ call' = StoreCall("json", "init", "", Undefined)
    /\ before' = [files |-> files, state |-> state, disk |-> disk]
    /\ state' = init(disk)
    /\ result' = Returns(Undefined)
    /\ UNCHANGED <<disk, files, live, commandVars, concVars, extractVars, raceVars>>

StoreNext ==
    \/ \E name \in FileNames, tab \in StoreTabs : FileSet(name, tab)
    \/ \E name \in FileNames, updates \in StoreUpdates : FileUpdate(name, updates)
    \/ \E name \in FileNames : FileDelete(name)
    \/ \E name \in JsonNames, tab \in StoreTabs : JsonSet(name, tab)
    \/ \E name \in JsonNames, updates \in StoreUpdates : JsonUpdate(name, updates)
    \/ \E name \in JsonNames : JsonDelete(name)
    \/ FileInit
    \/ JsonInit

StoreSpec == Init /\ [][StoreNext]_vars

----------------------------------------------------------------------------
(* Two processes on one home directory.  Each process runs store calls of  *)
(* either StateManager; a call is a sequence of steps, one per system call *)
(* it awaits, and the steps of the two processes interleave freely.        *)
(*                                                                         *)
(* fs.writeFile opens the file with flag 'w', which creates or truncates   *)
(* it, and then writes the text at offset 0 of its own descriptor: two     *)
(* steps.  A file is its text, the length of the text, and whether the     *)
(* text is what one writeFile wrote (intact).  Text written over a longer  *)
(* text of another descriptor leaves the tail of the longer one behind it. *)

Procs == {1, 2}

\* The names, tabs and partial tabs the processes call the stores with
ConcNames == {"a", "b"}
ConcTabs == StoreTabs
ConcUpdates == StoreUpdates

\* state.ts:7  STATE_FILE, as a path under ~/.web-cli
STATE_FILE == "tabs.json"

RECURSIVE VerbsLength(_)
\* The characters of the names and values of a list of verbs
VerbsLength(verbs) ==
    IF verbs = <<>> THEN 0
    ELSE LET v == Head(verbs)
         IN  Len(v.name) + Len(v.type) + Len(v.target) + VerbsLength(v.subverbs)
             + VerbsLength(Tail(verbs))

RECURSIVE KeysLength(_, _)
\* The characters of the keys of an object and of its plans
KeysLength(obj, keys) ==
    IF keys = {} THEN 0
    ELSE LET k == CHOOSE x \in keys : TRUE
         IN  Len(k) + Len(obj[k].method) + Len(obj[k].target_url) + KeysLength(obj, keys \ {k})

\* The length of JSON.stringify(tab): the characters of its values (an ISO
\* date has 24 characters, a time in milliseconds 13)
TabLength(tab) ==
      (IF "current_url" \in DOMAIN tab THEN Len(tab.current_url) ELSE 0)
    + (IF "last_updated" \in DOMAIN tab THEN 24 ELSE 0)
    + (IF "verb_cache_expires" \in DOMAIN tab THEN 13 ELSE 0)
    + (IF "verb_cache" \in DOMAIN tab THEN VerbsLength(ObjectValues(tab.verb_cache)) ELSE 0)
    + (IF "execution_plan_cache" \in DOMAIN tab
         THEN KeysLength(tab.execution_plan_cache, DOMAIN tab.execution_plan_cache) ELSE 0)

RECURSIVE StateLength(_, _)
\* The length of JSON.stringify(this.state)
StateLength(st, names) ==
    IF names = {} THEN 0
    ELSE LET n == CHOOSE x \in names : TRUE
         IN  Len(n) + TabLength(st[n]) + StateLength(st, names \ {n})

\* A file: the inode `ino`, its text and the length of the text
File(ino, text, length, intact) == [ino |-> ino, text |-> text, length |-> length, intact |-> intact]

\* open(path, 'w'): an existing file is truncated, a missing one is created
OpenTruncate(dir, path, ino) ==
    [f \in (DOMAIN dir \cup {path}) |->
        IF f = path THEN File(IF path \in DOMAIN dir THEN dir[path].ino ELSE ino, Undefined, 0, FALSE)
        ELSE dir[f]]

\* write(fd, text) at offset 0 of a descriptor opened on inode `ino`: a file
\* unlinked since is no longer in the directory; a longer text another
\* descriptor wrote since the truncation keeps its tail
WriteAtStart(dir, path, ino, text, length) ==
    IF path \in DOMAIN dir /\ dir[path].ino = ino
      THEN [dir EXCEPT ![path] = IF dir[path].length <= length
                                   THEN File(ino, text, length, TRUE)
                                   ELSE File(ino, text, dir[path].length, FALSE)]
      ELSE dir

\* JSON.parse(readFile(path)): throws (Undefined here) when the file is
\* missing, empty or not the text of one writer
ReadJson(dir, path) ==
    IF path \in DOMAIN dir /\ dir[path].intact THEN dir[path].text ELSE Undefined

\* What get(name) of a fresh instance of a store returns
RecordOf(dir, store, name) ==
    IF store = "json" THEN getTab(init(ReadJson(dir, STATE_FILE)), name)
    ELSE ReadJson(dir, getTabPath(name))

Idle == [pc |-> "idle", job |-> NoCall, mem |-> Undefined, existing |-> Undefined,
         ino |-> 0, text |-> Undefined]

\* No call is under way
Quiescent == \A p \in Procs : procs[p].pc = "idle"

\* History: what the steps of the calls on a name left as its record in each
\* store, the text last written to each path, the names and operations of
\* the calls made, their number and the number of files created
Hist(h, job, dir, path, text) ==
    [h EXCEPT !.left = [k \in DOMAIN h.left |->
                          IF k[2] = job.name THEN RecordOf(dir, k[1], k[2]) ELSE h.left[k]],
              !.written = IF path = "" THEN @ ELSE [@ EXCEPT ![path] = text],
              !.names = @ \cup {job.name},
              !.ops = @ \cup {job.op},
              !.inodes = IF DOMAIN dir \subseteq DOMAIN fs THEN @ ELSE @ + 1]

Started(h) == [h EXCEPT !.njobs = @ + 1]

\* The other variables
ConcUnchanged == UNCHANGED <<disk, state, commandVars, storeVars, extractVars, raceVars>>

\* A call starts: the number of calls is bounded
ConcStart(p) ==
    /\ procs[p].pc = "idle"
    /\ hist.njobs < MaxJobs

\* The inode of the next file created
NewIno(p) == hist.inodes + 1

\* state.ts:12-28  a process starts and init() loads tabs.json; the call it
\* will make is `job`
ConcJsonInit(p, job) ==
    /\ ConcStart(p)
    /\ job.store = "json"
    /\ procs' = [procs EXCEPT ![p] = [Idle EXCEPT !.pc = "json_loaded", !.job = job,
                                                  !.mem = init(ReadJson(fs, STATE_FILE))]]
    /\ hist' = Hist(Started(hist), job, fs, "", Undefined)
    /\ UNCHANGED fs
    /\ ConcUnchanged

\* state.ts:38-55 up to the open of writeFile: this.state is changed and
\* tabs.json is opened for writing
ConcJsonOpen(p) ==
    LET me  == procs[p]
        job == me.job
        mem == CASE job.op = "set" -> setTab(me.mem, job.name, JsonStringify(job.arg))
                 [] job.op = "update" -> updateTab(me.mem, job.name, job.arg)
                 [] job.op = "delete" -> deleteTab(me.mem, job.name)
    IN  /\ me.pc = "json_loaded"
        /\ IF job.op = "update" /\ getTab(me.mem, job.name) = Undefined
             THEN /\ procs' = [procs EXCEPT ![p] = Idle]
                  /\ UNCHANGED <<fs, hist>>
             ELSE /\ procs' = [procs EXCEPT ![p] =
                                  [me EXCEPT !.pc = "json_write", !.mem = mem,
                                             !.ino = IF STATE_FILE \in DOMAIN fs
                                                       THEN fs[STATE_FILE].ino ELSE NewIno(p),
                                             !.text = save(mem)]]
                  /\ fs' = OpenTruncate(fs, STATE_FILE, NewIno(p))
                  /\ hist' = Hist(hist, job, fs', "", Undefined)
        /\ ConcUnchanged

\* state.ts:31  the text is written
ConcJsonWrite(p) ==
    LET me == procs[p]
    IN  /\ me.pc = "json_write"
        /\ procs' = [procs EXCEPT ![p] = Idle]
        /\ fs' = WriteAtStart(fs, STATE_FILE, me.ino, me.text, StateLength(me.text, DOMAIN me.text))
        /\ hist' = Hist(hist, me.job, fs', STATE_FILE, me.text)
        /\ ConcUnchanged

\* part_005:39-41  setTab validates the name and opens the tab's file
ConcFileSet(p, job) ==
    /\ ConcStart(p)
    /\ job.store = "files" /\ job.op = "set"
    /\ LET path == getTabPath(job.name)
       IN  IF validateTabName(job.name).threw # ""
             THEN UNCHANGED <<procs, fs>>
             ELSE /\ procs' = [procs EXCEPT ![p] =
                                  [Idle EXCEPT !.pc = "file_write", !.job = job,
                                               !.ino = IF path \in DOMAIN fs
                                                         THEN fs[path].ino ELSE NewIno(p),
                                               !.text = JsonStringify(job.arg)]]
                  /\ fs' = OpenTruncate(fs, path, NewIno(p))
    /\ hist' = Hist(Started(hist), job, fs', "", Undefined)
    /\ ConcUnchanged

\* part_005:45-48  updateTab reads the tab's file
ConcFileRead(p, job) ==
    /\ ConcStart(p)
    /\ job.store = "files" /\ job.op = "update"
    /\ hist' = Hist(Started(hist), job, fs, "", Undefined)
    /\ LET existing == ReadJson(fs, getTabPath(job.name))
       IN  procs' = [procs EXCEPT ![p] =
                        IF existing = Undefined THEN Idle
                        ELSE [Idle EXCEPT !.pc = "file_read", !.job = job, !.existing = existing]]
    /\ UNCHANGED fs
    /\ ConcUnchanged

\* part_005:49-50 up to the open of writeFile
ConcFileOpen(p) ==
    LET me   == procs[p]
        path == getTabPath(me.job.name)
    IN  /\ me.pc = "file_read"
        /\ procs' = [procs EXCEPT ![p] =
                        [me EXCEPT !.pc = "file_write",
                                   !.ino = IF path \in DOMAIN fs THEN fs[path].ino ELSE NewIno(p),
                                   !.text = SpreadMerge(me.existing, me.job.arg)]]
        /\ fs' = OpenTruncate(fs, path, NewIno(p))
        /\ hist' = Hist(hist, me.job, fs', "", Undefined)
        /\ ConcUnchanged

\* part_005:41 and 50  the text is written
ConcFileWrite(p) ==
    LET me == procs[p]
    IN  /\ me.pc = "file_write"
        /\ procs' = [procs EXCEPT ![p] = Idle]
        /\ fs' = WriteAtStart(fs, getTabPath(me.job.name), me.ino, me.text, TabLength(me.text))
        /\ hist' = Hist(hist, me.job, fs', getTabPath(me.job.name), me.text)
        /\ ConcUnchanged

\* part_005:53-59  deleteTab
ConcFileDelete(p, job) ==
    /\ ConcStart(p)
    /\ job.store = "files" /\ job.op = "delete"
    /\ procs' = procs
    /\ fs' = Unlink(fs, getTabPath(job.name))
    /\ hist' = Hist(Started(hist), job, fs', "", Undefined)
    /\ ConcUnchanged

ConcJobs ==
    { StoreCall(s, "set", n, t) : s \in {"json", "files"}, n \in ConcNames, t \in ConcTabs }
    \cup { StoreCall(s, "update", n, u) : s \in {"json", "files"}, n \in ConcNames, u \in ConcUpdates }
    \cup { StoreCall(s, "delete", n, Undefined) : s \in {"json", "files"}, n \in ConcNames }

ConcNext ==
    \E p \in Procs :
        \/ \E job \in ConcJobs : ConcJsonInit(p, job)
        \/ ConcJsonOpen(p)
        \/ ConcJsonWrite(p)
        \/ \E job \in ConcJobs : ConcFileSet(p, job)
        \/ \E job \in ConcJobs : ConcFileRead(p, job)
        \/ ConcFileOpen(p)
        \/ ConcFileWrite(p)
        \/ \E job \in ConcJobs : ConcFileDelete(p, job)

ConcSpec == Init /\ [][ConcNext]_vars

----------------------------------------------------------------------------
(* The Extractor: src/unnamed/part_004 (HTMLParser) *)

\* A page is what the three selectors of parse find in it, in document
\* order: $('a[href]'), $('form') and $('button:not(form button), a.button, a.btn')
Anchor(text, href) == [text |-> text, href |-> href]
\* submit: the text of the form's first submit button, value: its value attribute
Form(action, submit, value) == [action |-> action, submit |-> submit, value |-> value]
Button(text, onclick, dataAction) == [text |-> text, onclick |-> onclick, dataAction |-> dataAction]
Page(links, forms, buttons) == [links |-> links, forms |-> forms, buttons |-> buttons]

UpperCase == "ABCDEFGHIJKLMNOPQRSTUVWXYZ"
LowerCase == "abcdefghijklmnopqrstuvwxyz"
Digits == "0123456789"

\* The characters \s matches, among those of the texts
Whitespace == {" ", "\t", "\n"}

CharsOf(s) == { SubSeq(s, i, i) : i \in 1..Len(s) }

\* s.substring(from, to) with 0-based positions
Substring(s, from, to) ==
    SubSeq(s, from + 1, IF to < Len(s) THEN to ELSE Len(s))

RECURSIVE TrimStart(_)
TrimStart(s) ==
    IF s # "" /\ SubSeq(s, 1, 1) \in Whitespace THEN TrimStart(SubSeq(s, 2, Len(s))) ELSE s

RECURSIVE TrimEnd(_)
TrimEnd(s) ==
    IF s # "" /\ SubSeq(s, Len(s), Len(s)) \in Whitespace
      THEN TrimEnd(SubSeq(s, 1, Len(s) - 1)) ELSE s

\* s.trim()
Trim(s) == TrimEnd(TrimStart(s))

\* One character of s.toLowerCase()
LowerChar(ch) ==
    IF \E i \in 1..Len(UpperCase) : SubSeq(UpperCase, i, i) = ch
      THEN LET i == CHOOSE j \in 1..Len(UpperCase) : SubSeq(UpperCase, j, j) = ch
           IN  SubSeq(LowerCase, i, i)
      ELSE ch

RECURSIVE ToLowerCase(_, _)
\* part_004:118  .toLowerCase()
ToLowerCase(s, i) ==
    IF i > Len(s) THEN "" ELSE LowerChar(SubSeq(s, i, i)) \o ToLowerCase(s, i + 1)

RECURSIVE RemoveSpecial(_, _)
\* part_004:119  .replace(/[^a-z0-9\s-]/g, '')
RemoveSpecial(s, i) ==
    IF i > Len(s) THEN ""
    ELSE LET ch == SubSeq(s, i, i)
         IN  (IF ch \in CharsOf(LowerCase) \cup CharsOf(Digits) \cup Whitespace \cup {"-"}
                THEN ch ELSE "")
             \o RemoveSpecial(s, i + 1)

RECURSIVE SpacesToHyphens(_, _)
\* part_004:120  .replace(/\s+/g, '-')
SpacesToHyphens(s, i) ==
    IF i > Len(s) THEN ""
    ELSE LET ch == SubSeq(s, i, i)
         IN  (IF ch \notin Whitespace THEN ch
              ELSE IF i > 1 /\ SubSeq(s, i - 1, i - 1) \in Whitespace THEN "" ELSE "-")
             \o SpacesToHyphens(s, i + 1)

RECURSIVE CollapseHyphens(_, _)
\* part_004:121  .replace(/-+/g, '-')
CollapseHyphens(s, i) ==
    IF i > Len(s) THEN ""
    ELSE LET ch == SubSeq(s, i, i)
         IN  (IF ch = "-" /\ i > 1 /\ SubSeq(s, i - 1, i - 1) = "-" THEN "" ELSE ch)
             \o CollapseHyphens(s, i + 1)

\* part_004:122  .replace(/^-|-$/g, ''): one hyphen at the start and one at the end
TrimHyphens(s) ==
    LET t == IF s # "" /\ SubSeq(s, 1, 1) = "-" THEN SubSeq(s, 2, Len(s)) ELSE s
    IN  IF t # "" /\ SubSeq(t, Len(t), Len(t)) = "-" THEN SubSeq(t, 1, Len(t) - 1) ELSE t

\* The name before it is cut to 50 characters
KebabCase(text) ==
    TrimHyphens(CollapseHyphens(SpacesToHyphens(RemoveSpecial(ToLowerCase(text, 1), 1), 1), 1))

\* part_004:116-124
sanitizeVerbName(text) == Substring(KebabCase(text), 0, 50)

\* part_004:129-138  new URL(href, new URL(baseUrl)).toString() for an
\* absolute http(s) URL, a path and the empty reference; a URL that is only
\* an origin is given the path /
resolveUrl(href, baseUrl) ==
    LET withPath(u) == IF UrlOrigin(u) = u THEN u \o "/" ELSE u
    IN  IF IsHttpUrl(href) THEN withPath(href)
        ELSE IF href = "" THEN withPath(baseUrl)
        ELSE IF StartsWith(href, "/") THEN UrlOrigin(baseUrl) \o href
        ELSE UrlDirectory(baseUrl) \o href

\* part_004:18-41  the verbs of the links
RECURSIVE LinkVerbs(_, _)
LinkVerbs(links, currentUrl) ==
    IF links = <<>> THEN <<>>
    ELSE LET href == Head(links).href
             linkText2 == Trim(Head(links).text)
             skip == \/ href = "" \/ linkText2 = ""
                     \/ Len(linkText2) < 3 \/ Len(linkText2) > 100
         IN  (IF skip THEN <<>>
              ELSE << V(sanitizeVerbName(linkText2), "navigate", resolveUrl(href, currentUrl), <<>>) >>)
             \o LinkVerbs(Tail(links), currentUrl)

\* part_004:44-72  the verbs of the forms; i is the index of the form
RECURSIVE FormVerbs(_, _, _)
FormVerbs(forms, i, currentUrl) ==
    IF forms = <<>> THEN <<>>
    ELSE LET f == Head(forms)
             formName == IF Trim(f.submit) # "" THEN Trim(f.submit)
                         ELSE IF f.value # "" THEN f.value
                         ELSE "form-" \o ToString(i)
         IN  << V(sanitizeVerbName(formName), "form", resolveUrl(f.action, currentUrl), <<>>) >>
             \o FormVerbs(Tail(forms), i + 1, currentUrl)

\* part_004:75-96  the verbs of the buttons
RECURSIVE ButtonVerbs(_)
ButtonVerbs(buttons) ==
    IF buttons = <<>> THEN <<>>
    ELSE LET b == Head(buttons)
             buttonText == Trim(b.text)
             skip == buttonText = "" \/ Len(buttonText) < 2
         IN  (IF ~skip /\ (b.onclick # "" \/ b.dataAction # "")
                THEN << V(sanitizeVerbName(buttonText), "action",
                          IF b.onclick # "" THEN b.onclick ELSE b.dataAction, <<>>) >>
                ELSE <<>>)
             \o ButtonVerbs(Tail(buttons))

\* part_004:15-96  verbs, in the order they are pushed
ExtractedVerbs(page, currentUrl) ==
    LinkVerbs(page.links, currentUrl) \o FormVerbs(page.forms, 0, currentUrl)
    \o ButtonVerbs(page.buttons)

\* Variant: of the verbs of one name the last one is kept
RECURSIVE uniqueVerbsKeepLast(_, _)
uniqueVerbsKeepLast(verbs, seenNames) ==
    IF verbs = <<>> THEN <<>>
    ELSE IF \E i \in 2..Len(verbs) : verbs[i].name = Head(verbs).name
      THEN uniqueVerbsKeepLast(Tail(verbs), seenNames)
      ELSE <<Head(verbs)>> \o uniqueVerbsKeepLast(Tail(verbs), seenNames)

\* part_004:99-104  verbs.filter(...) with the Set seenNames
RECURSIVE uniqueVerbs(_, _)
uniqueVerbs(verbs, seenNames) ==
    IF verbs = <<>> THEN <<>>
    ELSE IF Head(verbs).name \in seenNames
      THEN uniqueVerbs(Tail(verbs), seenNames)
      ELSE <<Head(verbs)>> \o uniqueVerbs(Tail(verbs), seenNames \cup {Head(verbs).name})

\* part_004:108  the number of verbs parse returns at most
VerbLimit == 20

\* list.slice(0, n)
Slice(list, n) == SubSeq(list, 1, IF n < Len(list) THEN n ELSE Len(list))

\* Variant: the list is cut before the duplicates are taken out
parseCutFirst(page, currentUrl) ==
    uniqueVerbs(Slice(ExtractedVerbs(page, currentUrl), VerbLimit), {})

\* part_004:13-111  HTMLParser.parse: the verbs of the ParsedPage
parse(page, currentUrl) ==
    Slice(uniqueVerbs(ExtractedVerbs(page, currentUrl), {}), VerbLimit)

----------------------------------------------------------------------------
(* The Extractor called on its own, once, with a page or with a text *)

MaxAnchors == 30

\* The k-th link of a generated page, and links that come to the same name
PageLink(k) == Anchor("Page " \o ToString(k), "/p" \o ToString(k))
SameNameLink(k) == Anchor("  PAGE   " \o ToString(k) \o "!", "https://example.com/other" \o ToString(k))

\* n links; `dup` says where links of the same names are put: nowhere,
\* after each link, after all links, or links parse skips before them
PageLinks(n, dup) ==
    CASE dup = "none" -> [i \in 1..n |-> PageLink(i)]
      [] dup = "each" -> [i \in 1..(2 * n) |->
                            IF i % 2 = 1 THEN PageLink((i + 1) \div 2) ELSE SameNameLink(i \div 2)]
      [] dup = "end" -> [i \in 1..n |-> PageLink(i)] \o [i \in 1..n |-> SameNameLink(i)]
      [] dup = "skipped" -> << Anchor("AB", "/short"), Anchor("About", ""),
                               Anchor("   ", "/blank") >> \o [i \in 1..n |-> PageLink(i)]

PageForms == { <<>>,
               << Form("/search", " Search ", ""), Form("", "", "Page 1"), Form("/f", "", "") >> }

PageButtons == { <<>>,
                 << Button("Add to Cart", "doCart()", ""), Button("X", "x()", ""),
                    Button("Search", "", "search"), Button("Plain", "", "") >> }

Pages ==
    { Page(PageLinks(n, dup), forms, buttons) :
        n \in 0..MaxAnchors, dup \in {"none", "each", "end", "skipped"},
        forms \in PageForms, buttons \in PageButtons }

\* 48 characters, so that what follows them is at the cut
Text48 == "abcdefghijklmnopqrstuvwxyz0123456789abcdefghijkl"

Texts ==
    { head \o middle \o tail :
        head \in {"", "About Us & Contact!", " -- ", "A"},
        middle \in {"", Text48, "-"},
        tail \in {"", "x", "xy", "x y", "x yz", "x  -- y", "xy-", "xyz w", "\tx\ny!", "X_Y", "9 to 5", "  "} }

\* Nothing was handed to the Extractor yet
ExtractorUnused == html = Page(<<>>, <<>>, <<>>) /\ linkText = ""

\* parse(html, text, currentUrl)
Parse(page) ==
    /\ ExtractorUnused
    /\ html' = page
    /\ parsedPage' = parse(page, HomeUrl)
    /\ UNCHANGED <<linkText, verbName>>
    /\ UNCHANGED <<disk, state, commandVars, storeVars, concVars, raceVars>>

\* sanitizeVerbName(text)
Sanitize(text) ==
    /\ ExtractorUnused
    /\ linkText' = text
    /\ verbName' = sanitizeVerbName(text)
    /\ UNCHANGED <<html, parsedPage>>
    /\ UNCHANGED <<disk, state, commandVars, storeVars, concVars, raceVars>>

ExtractNext ==
    \/ \E page \in Pages : Parse(page)
    \/ \E text \in Texts : Sanitize(text)

ExtractSpec == Init /\ [][ExtractNext]_vars

----------------------------------------------------------------------------
(* Two commands at once on one tab.  Each command is a process of its own: *)
(* it loads the tab, awaits its fetches and the Planner, and updates the   *)
(* store, and the other command's steps fall between its awaits.  The      *)
(* store is tabs.json (src/src/state.ts) or a file per tab (part_005).     *)

\* Commands started in one run
MaxRaceCmds == 4

RaceTab == "t"
RaceUrls == {"https://example.com/a/b", "https://example.com/c/d"}

\* The page the site serves at every address: a relative link and a form
\* that posts to the page itself
SitePage == Page(<<Anchor("About", "about")>>, <<Form("", "Search", "")>>, <<>>)

\* tab.ts:45-54  htmlParser.parse of the page fetched at tabData.current_url
PageVerbs(url) == parse(SitePage, url)

RaceCommands ==
    { Command("nav", RaceTab, u, "", <<>>, FALSE, TRUE) : u \in RaceUrls }
    \cup { Command("tab", RaceTab, "", v, <<>>, FALSE, TRUE) : v \in {"", "about", "search"} }

RacePlans == { NullPlan, Plan("navigate", "docs"), Plan("form", "") }

RaceIdle ==
    [pc |-> "idle", cmd |-> NoCommand, state |-> Undefined, tabData |-> Undefined,
     plan |-> Undefined, existing |-> Undefined, updates |-> Undefined, next |-> "idle"]

\* stateManager.init() and getTab(name) of the store in use
RaceLoad(store, tabs, name) ==
    IF store = "json" THEN getTab(init(tabs), name)
    ELSE LET parsed == getTabFile(tabs, name).value
         IN  IF parsed = Undefined THEN Undefined ELSE parsed.set

\* tab.ts:116-205: where the execution of a verb goes after the tab is loaded
RaceDispatch(me) ==
    LET r == ResolveVerb(me.tabData, me.cmd.verb, me.cmd.params)
        key == PlanCacheKey(r.verb.name, r.actual, me.tabData.current_url)
        plan == IF IsDeterministic(r.verb) THEN DeterministicPlan(r.verb)
                ELSE PlanLookup(me.tabData, key)
    IN  IF r.kind # "Active" THEN RaceIdle
        ELSE IF plan = Undefined THEN [me EXCEPT !.pc = "plan_fetch"]
        ELSE IF IsNavigatePlan(plan) THEN [me EXCEPT !.pc = "execute_fetch", !.plan = plan]
        ELSE RaceIdle

\* A command starts: stateManager.init(), then nav.ts:24 or tab.ts:24-50 up
\* to its first await.  expired: whether the verb cache has run out
RaceBegin(p, store, c, expired) ==
    LET tab == IF c.kind = "nav" THEN Undefined ELSE RaceLoad(store, race.tabs, c.name)
        me == [RaceIdle EXCEPT !.cmd = c, !.tabData = tab,
                               !.state = IF store = "json" THEN init(race.tabs) ELSE Undefined]
    IN  /\ race.run[p].pc = "idle"
        /\ race.ncmds < MaxRaceCmds
        /\ race.store \in {"none", store}
        /\ race' = [race EXCEPT
              !.store = store,
              !.ncmds = @ + 1,
              !.run[p] =
                 IF c.kind = "nav" THEN [me EXCEPT !.pc = "nav_fetch"]
                 ELSE IF tab = Undefined THEN RaceIdle
                 ELSE IF c.verb = ""
                   THEN IF "verb_cache" \in DOMAIN tab /\ ~expired
                          THEN RaceIdle
                          ELSE [me EXCEPT !.pc = "discover_fetch"]
                 ELSE RaceDispatch(me)]
        /\ UNCHANGED <<disk, state, commandVars, storeVars, concVars, extractVars>>

\* await fetch: the request fails and the command ends without a write
RaceFetchFails(p) ==
    /\ race.run[p].pc \in {"nav_fetch", "discover_fetch", "plan_fetch", "execute_fetch"}
    /\ race' = [race EXCEPT !.run[p] = RaceIdle]
    /\ UNCHANGED <<disk, state, commandVars, storeVars, concVars, extractVars>>

\* nav.ts:31-41: the page answered; setTab of the store in use
RaceNavigate(p) ==
    LET me == race.run[p]
        tab == NavTab(NormalizeUrl(me.cmd.url), 0)
    IN  /\ me.pc = "nav_fetch"
        /\ race' = [race EXCEPT
              !.tabs = IF race.store = "json"
                         THEN save(setTab(me.state, me.cmd.name, tab))
                         ELSE setTabFile(race.tabs, me.cmd.name, JsObject(tab, {})).files,
              !.run[p] = RaceIdle]
        /\ UNCHANGED <<disk, state, commandVars, storeVars, concVars, extractVars>>

\* stateManager.updateTab(name, updates) up to its first await.  state.ts
\* tests and merges the state this process loaded and saves all of it;
\* part_005 reads the tab's file now and writes it in a later step
RaceUpdate(p, me, updates, next) ==
    LET name == me.cmd.name
        after == [me EXCEPT !.pc = next]
    IN  IF race.store = "json"
          THEN IF getTab(me.state, name) = Undefined
                 THEN [race EXCEPT !.run[p] = RaceIdle]
                 ELSE [race EXCEPT
                         !.tabs = save(updateTab(me.state, name, updates)),
                         !.run[p] = IF next = "idle" THEN RaceIdle
                                    ELSE [after EXCEPT !.state = updateTab(me.state, name, updates)]]
          ELSE IF getTabFile(race.tabs, name).value = Undefined
                 THEN [race EXCEPT !.run[p] = RaceIdle]
                 ELSE [race EXCEPT
                         !.run[p] = [me EXCEPT !.pc = "update_write",
                                               !.existing = getTabFile(race.tabs, name).value.set,
                                               !.updates = updates,
                                               !.next = next]]

\* part_005 updateTab after its read: { ...existing, ...updates } is written
RaceUpdateWrite(p) ==
    LET me == race.run[p]
    IN  /\ me.pc = "update_write"
        /\ race' = [race EXCEPT
              !.tabs = WriteFile(race.tabs, getTabPath(me.cmd.name),
                                 SpreadMerge(me.existing, me.updates)),
              !.run[p] = IF me.next = "idle" THEN RaceIdle
                         ELSE [me EXCEPT !.pc = me.next, !.existing = Undefined,
                                         !.updates = Undefined, !.next = "idle"]]
        /\ UNCHANGED <<disk, state, commandVars, storeVars, concVars, extractVars>>

\* tab.ts:52-62: the page of the loaded current_url answered; its verbs are cached
RaceDiscover(p) ==
    LET me == race.run[p]
    IN  /\ me.pc = "discover_fetch"
        /\ race' = RaceUpdate(p, me, DiscoveryUpdates(BuildVerbCache(PageVerbs(me.tabData.current_url)), 0),
                              "idle")
        /\ UNCHANGED <<disk, state, commandVars, storeVars, concVars, extractVars>>

\* tab.ts:183-205: the page answered and the Planner was asked; its plan is
\* cached under verb@current_url of the loaded tab
RacePlan(p, answer) ==
    LET me == race.run[p]
        r == ResolveVerb(me.tabData, me.cmd.verb, me.cmd.params)
        key == PlanCacheKey(r.verb.name, r.actual, me.tabData.current_url)
        plan == planExecution(r.verb, me.cmd.llm, answer)
    IN  /\ me.pc = "plan_fetch"
        /\ race' = IF plan = NullPlan
                     THEN [race EXCEPT !.run[p] = RaceIdle]
                     ELSE RaceUpdate(p, [me EXCEPT !.plan = plan], PlanCacheUpdates(PlanCacheWith(me.tabData, key, plan)),
                                     IF IsNavigatePlan(plan) THEN "execute_fetch" ELSE "idle")
        /\ UNCHANGED <<disk, state, commandVars, storeVars, concVars, extractVars>>

\* tab.ts:207-228: the target answered; the tab moves to it and loses its
\* verbs and plans
RaceExecute(p) ==
    LET me == race.run[p]
        target == ResolveTarget(me.plan.target_url, me.tabData.current_url)
    IN  /\ me.pc = "execute_fetch"
        /\ race' = RaceUpdate(p, me, NavigateUpdates(target, 0), "idle")
        /\ UNCHANGED <<disk, state, commandVars, storeVars, concVars, extractVars>>

RaceNext ==
    \/ \E p \in Procs, store \in {"json", "files"}, c \in RaceCommands, expired \in BOOLEAN :
          RaceBegin(p, store, c, expired)
    \/ \E p \in Procs : RaceFetchFails(p)
    \/ \E p \in Procs : RaceNavigate(p)
    \/ \E p \in Procs : RaceDiscover(p)
    \/ \E p \in Procs, answer \in RacePlans : RacePlan(p, answer)
    \/ \E p \in Procs : RaceExecute(p)
    \/ \E p \in Procs : RaceUpdateWrite(p)

RaceSpec == Init /\ [][RaceNext]_vars

----------------------------------------------------------------------------
(* Vocabulary of the properties *)

InTrace(s) == \E i \in 1..Len(trace) : trace[i] = s

\* The running / last command is a discovery, resp. a verb execution, of an existing tab
Discovering == cmd.kind = "tab" /\ cmd.verb = "" /\ tabData # Undefined
Executing == cmd.kind = "tab" /\ cmd.verb # "" /\ tabData # Undefined

\* The resolver has chosen an active verb
HasActiveVerb == InTrace("DeterministicExecute") \/ InTrace("PlanLookup")

CacheFields == {"verb_cache", "verb_cache_expires", "execution_plan_cache"}

\* The plans a tab holds
PlansOf(tab) ==
    IF "execution_plan_cache" \in DOMAIN tab THEN tab.execution_plan_cache ELSE Undefined

----------------------------------------------------------------------------
(* C1: a completed Execute-Navigate leaves the persisted tab at the        *)
(* resolved target with no verb_cache, no verb_cache_expires and no        *)
(* execution_plan_cache, and no store write changes current_url while      *)
(* leaving any of the three caches in place.                               *)

C1_Final ==
    (Executing /\ pc = "done" /\ outcome = "Navigated") =>
        /\ cmd.name \in DOMAIN disk
        /\ disk[cmd.name].current_url = targetUrl
        /\ IsHttpUrl(targetUrl)
        /\ calls[Len(calls)] = Call("fetch", targetUrl)
        /\ DOMAIN disk[cmd.name] \cap CacheFields = {}

C1_Atomic ==
    \A n \in DOMAIN disk \cap DOMAIN disk' :
        disk'[n].current_url # disk[n].current_url => DOMAIN disk'[n] \cap CacheFields = {}

C1_NavigateClearsCaches == [](C1_Final) /\ [][C1_Atomic]_vars

\* A navigation of a tab that held verbs, with a plan cached on the way
C1_Witness ==
    /\ Executing /\ pc = "done" /\ outcome = "Navigated"
    /\ "verb_cache" \in DOMAIN tabData
    /\ writes = 2

----------------------------------------------------------------------------
(* C2: discovery lists the cached verbs if and only if verb_cache is       *)
(* present, --use-llm is not given and the time read is before             *)
(* verb_cache_expires; it then prints exactly the cached verbs, calls no   *)
(* collaborator and leaves the persisted tab as it was, so that a repeated *)
(* discovery prints the same list.                                         *)

C2_Reuse ==
    /\ "verb_cache" \in DOMAIN tabData
    /\ ~cmd.useLlm
    /\ "verb_cache_expires" \in DOMAIN tabData
    /\ now < tabData.verb_cache_expires

C2_DiscoveryReusesCache ==
    (Discovering /\ pc \in {"discover_parse", "done"}) =>
        /\ C2_Reuse <=> (pc = "done" /\ outcome = "DiscoveryCached")
        /\ C2_Reuse =>
              /\ Len(output) = Len(tabData.verb_cache)
              /\ \A i \in 1..Len(output) : output[i] = tabData.verb_cache[i].value
              /\ calls = <<>>
              /\ writes = 0
              /\ disk[cmd.name] = tabData

\* Verbs listed from the cache some minutes after they were cached
C2_Witness ==
    /\ Discovering /\ pc = "done" /\ outcome = "DiscoveryCached"
    /\ Len(output) > 0
    /\ now > tabData.verb_cache_expires - CACHE_TTL

----------------------------------------------------------------------------
(* C3: a discovery that does not reuse the cache fetches current_url once, *)
(* and persists the verbs it found as verb_cache keyed by verb name with   *)
(* verb_cache_expires five minutes after the write; every other field of   *)
(* the tab stays as it was.                                                *)

C3_KeyedByName(cache, verbs) ==
    /\ \A i \in 1..Len(cache) :
          /\ cache[i].key = cache[i].value.name
          /\ \E j \in 1..Len(verbs) : verbs[j] = cache[i].value
          /\ \A k \in 1..Len(cache) : cache[k].key = cache[i].key => k = i
    /\ \A j \in 1..Len(verbs) : \E i \in 1..Len(cache) : cache[i].key = verbs[j].name

C3_DiscoveryRefreshesCache ==
    /\ (Discovering /\ pc = "discover_parse") =>
          calls = <<Call("fetch", tabData.current_url)>>
    /\ (Discovering /\ pc = "done" /\ outcome = "Discovered") =>
          /\ calls[1] = Call("fetch", tabData.current_url)
          /\ Cardinality({i \in 1..Len(calls) : calls[i].op = "fetch"}) = 1
          /\ DOMAIN disk[cmd.name] = DOMAIN tabData \cup {"verb_cache", "verb_cache_expires"}
          /\ \A f \in DOMAIN tabData \ {"verb_cache", "verb_cache_expires"} :
                disk[cmd.name][f] = tabData[f]
          /\ disk[cmd.name].verb_cache_expires = clock + CACHE_TTL
          /\ C3_KeyedByName(disk[cmd.name].verb_cache, output)

\* A refresh of a tab that held verbs and plans, some time after it was created
C3_Witness ==
    /\ Discovering /\ pc = "done" /\ outcome = "Discovered"
    /\ "execution_plan_cache" \in DOMAIN tabData
    /\ "verb_cache" \in DOMAIN tabData
    /\ Len(output) > Len(disk[cmd.name].verb_cache)
    /\ clock > tabData.last_updated

----------------------------------------------------------------------------
(* C4: an active verb of type navigate with a non-empty target is executed *)
(* with the plan {navigate, target}: the Planner is not asked, the plan    *)
(* cache is neither read nor written, and the only fetch is the one of the *)
(* target.                                                                 *)

C4_DeterministicExecution ==
    (Executing /\ HasActiveVerb /\ cachedVerb.type = "navigate" /\ cachedVerb.target # "") =>
        /\ executionPlan = [method |-> "navigate", target_url |-> cachedVerb.target, for |-> ""]
        /\ ~InTrace("PlanLookup")
        /\ ~InTrace("PlanRequest")
        /\ \A i \in 1..Len(calls) :
              calls[i].op \in {"fetch", "fetchError"} /\ calls[i].arg = targetUrl
        /\ targetUrl # "" /\ IsHttpUrl(cachedVerb.target) => targetUrl = cachedVerb.target
        /\ writes = (IF pc = "done" /\ outcome = "Navigated" THEN 1 ELSE 0)
        /\ writes = 0 => disk[cmd.name] = tabData

\* A subverb with a relative target, executed while a plan of its container is cached
C4_Witness ==
    /\ Executing /\ pc = "done" /\ outcome = "Navigated"
    /\ InTrace("DeterministicExecute")
    /\ ~IsHttpUrl(cachedVerb.target)
    /\ "execution_plan_cache" \in DOMAIN tabData

----------------------------------------------------------------------------
(* C5: the plan the plan-cache lookup returns was cached for the very verb *)
(* being executed, a subverb being known as root.child.                    *)

C5_PlanCacheKeyedByActiveVerb ==
    (Executing /\ InTrace("PlanLookup") /\ ~InTrace("PlanRequest") /\ executionPlan # Undefined) =>
        executionPlan.for = actualVerb

----------------------------------------------------------------------------
(* C6: for a non-deterministic active verb a cached plan is used without   *)
(* fetching the current page or asking the Planner; otherwise the current  *)
(* page is fetched, the Planner is asked, and its plan is persisted under  *)
(* the looked-up key before it is used, the plans cached before staying;   *)
(* the Planner is not asked for a verb whose plan is still cached.         *)

C6_Hit == InTrace("PlanLookup") /\ ~InTrace("PlanRequest") /\ executionPlan # Undefined

C6_Inv ==
    Executing =>
        /\ C6_Hit =>
              /\ \E k \in DOMAIN PlansOf(tabData) : PlansOf(tabData)[k] = executionPlan
              /\ \A i \in 1..Len(calls) :
                    calls[i].op \in {"fetch", "fetchError"} /\ calls[i].arg = targetUrl
              /\ pc = "execute" => calls = <<>>
        /\ pc = "plan_request" => calls = <<Call("fetch", tabData.current_url)>>
        /\ InTrace("PlanRequest") =>
              /\ calls[1] = Call("fetch", tabData.current_url)
              /\ calls[2] = Call("plan", cachedVerb.name)
        /\ (InTrace("PlanRequest") /\ executionPlan # NullPlan /\ pc \in {"execute", "execute_fetch"}) =>
              LET key == PlanCacheKey(cmd.verb, actualVerb, tabData.current_url)
              IN  /\ key \in DOMAIN PlansOf(disk[cmd.name])
                  /\ PlansOf(disk[cmd.name])[key] = executionPlan
        /\ pc \in {"plan_fetch", "plan_request"} =>
              \A k \in DOMAIN PlansOf(tabData) : PlansOf(tabData)[k].for # actualVerb

\* The step that caches a plan adds one key and keeps every plan cached before
C6_Step ==
    (pc = "plan_request" /\ pc' = "execute") =>
        LET old == PlansOf(disk[cmd.name])
            new == PlansOf(disk'[cmd.name])
        IN  /\ \A k \in DOMAIN old : k \in DOMAIN new /\ new[k] = old[k]
            /\ Cardinality(DOMAIN new) = Cardinality(DOMAIN old) + 1
            /\ old = PlansOf(tabData)

C6_PlanCache == [](C6_Inv) /\ [][C6_Step]_vars

\* A second plan is cached beside the first one
C6_Witness ==
    /\ Executing /\ pc = "execute" /\ InTrace("PlanRequest")
    /\ Cardinality(DOMAIN PlansOf(disk[cmd.name])) = 2

----------------------------------------------------------------------------
(* C7: a root verb with subverbs, called without a child name, lists its   *)
(* subverbs and does nothing else: no store write, no fetch, no Planner    *)
(* call, whatever type and target the container carries.                   *)

C7_ContainerList ==
    \A i \in 1..(IF Executing /\ "verb_cache" \in DOMAIN tabData THEN Len(tabData.verb_cache) ELSE 0) :
        ( /\ pc # "resolve"
          /\ cmd.params = <<>>
          /\ tabData.verb_cache[i].key = cmd.verb
          /\ Len(tabData.verb_cache[i].value.subverbs) > 0 ) =>
            /\ pc = "done" /\ outcome = "ContainerList"
            /\ output = tabData.verb_cache[i].value.subverbs
            /\ trace = <<"ContainerList">>
            /\ writes = 0
            /\ calls = <<>>
            /\ disk[cmd.name] = tabData

\* The container listed is itself a navigate verb with a target
C7_Witness ==
    /\ Executing /\ pc = "done" /\ outcome = "ContainerList"
    /\ cachedVerb.type = "navigate" /\ cachedVerb.target # ""
    /\ Len(output) > 1

----------------------------------------------------------------------------
(* C8: the active verb that reaches Deterministic-Execute, Plan-Lookup or  *)
(* Plan-Request has no subverbs.                                           *)

C8_ContainerNeverExecuted ==
    (Executing /\ (HasActiveVerb \/ InTrace("PlanRequest"))) => Len(cachedVerb.subverbs) = 0

----------------------------------------------------------------------------
(* C9: a root name that is not a key of verb_cache, or a child name that   *)
(* is not the name of a subverb of the container called, ends the command  *)
(* in NotFound with no store write and no Fetcher or Planner call.         *)

C9_RootMissing ==
    \/ "verb_cache" \notin DOMAIN tabData
    \/ \A i \in 1..Len(tabData.verb_cache) : tabData.verb_cache[i].key # cmd.verb

C9_ChildMissing ==
    /\ "verb_cache" \in DOMAIN tabData
    /\ cmd.params # <<>>
    /\ \E i \in 1..Len(tabData.verb_cache) :
          /\ tabData.verb_cache[i].key = cmd.verb
          /\ Len(tabData.verb_cache[i].value.subverbs) > 0
          /\ \A j \in 1..Len(tabData.verb_cache[i].value.subverbs) :
                tabData.verb_cache[i].value.subverbs[j].name # cmd.params[1]

C9_NotFound ==
    (Executing /\ pc # "resolve" /\ (C9_RootMissing \/ C9_ChildMissing)) =>
        /\ pc = "done"
        /\ outcome \in {"VerbNotFound", "SubverbNotFound"}
        /\ trace = <<"NotFound">>
        /\ writes = 0
        /\ calls = <<>>

----------------------------------------------------------------------------
(* C10: which plans are executed.                                          *)

\* As claimed: Execute-Unsupported is reached exactly by the plans whose
\* method is not navigate, every navigate plan going to Execute-Navigate
C10_DispatchByMethodOnly ==
    (Executing /\ (InTrace("ExecuteNavigate") \/ InTrace("ExecuteUnsupported"))) =>
        (InTrace("ExecuteUnsupported") <=> executionPlan.method # "navigate")

\* What tab.ts:208 does: Execute-Navigate is reached exactly by the plans
\* whose method is navigate and whose target_url is not empty; every other
\* plan, a navigate plan without target_url included, ends in
\* Execute-Unsupported
C10_DispatchByMethodAndTarget ==
    (Executing /\ pc \in {"execute_fetch", "done"} /\ executionPlan # Undefined) =>
        /\ InTrace("ExecuteNavigate") <=>
              (executionPlan.method = "navigate" /\ executionPlan.target_url # "")
        /\ InTrace("ExecuteUnsupported") <=>
              ~(executionPlan.method = "navigate" /\ executionPlan.target_url # "")
        /\ InTrace("ExecuteUnsupported") => (pc = "done" /\ outcome = "Unsupported" /\ targetUrl = "")

----------------------------------------------------------------------------
(* C11: a null plan, which is what an unavailable Planner gives for every  *)
(* verb that reaches Plan-Request, ends the command as a plan failure and  *)
(* leaves the persisted tab exactly as it was loaded.                      *)

C11_NullPlanIsTerminal ==
    (Executing /\ InTrace("PlanRequest")) =>
        /\ (executionPlan = NullPlan) <=> (pc = "done" /\ outcome = "PlanFailure")
        /\ ~cmd.llm => executionPlan = NullPlan
        /\ executionPlan = NullPlan =>
              /\ writes = 0
              /\ disk[cmd.name] = tabData
              /\ getTab(init(disk), cmd.name) = tabData

\* The Planner is unavailable and the tab holds verbs and an earlier plan
C11_Witness ==
    /\ Executing /\ pc = "done" /\ outcome = "PlanFailure"
    /\ ~cmd.llm
    /\ "execution_plan_cache" \in DOMAIN tabData
    /\ "verb_cache" \in DOMAIN disk[cmd.name]

----------------------------------------------------------------------------
(* C12: every verb execution terminates in exactly one terminal outcome    *)
(* and enters no resolver state twice.                                     *)

\* A step of the running command.  The event loop resumes a command once
\* the promise it awaits settles, and Browser.fetch, LLMParser.parse and
\* LLMParser.planExecution settle (with a result or an error)
CommandStep ==
    \/ \E ok \in BOOLEAN : NavFetch(ok)
    \/ DiscoverCached
    \/ \E ok \in BOOLEAN : DiscoverFetch(ok)
    \/ \E response \in LlmResponses \cup HtmlResponses : DiscoverParse(response)
    \/ Resolve
    \/ \E ok \in BOOLEAN : PlanFetch(ok)
    \/ \E answer \in PlannerPlans : PlanRequest(answer)
    \/ Execute
    \/ \E ok \in BOOLEAN : ExecuteFetch(ok)
    \/ \E ok \in BOOLEAN : RefineFetch(ok)
    \/ \E verbs \in LlmLists \cup SubverbLists : RefineParse(verbs)

FairSpec == Spec /\ WF_vars(CommandStep)

ResolverTerminals ==
    {"VerbNotFound", "SubverbNotFound", "ContainerList", "PlanFailure", "Unsupported",
     "FetchError", "Navigated"}

\* The resolver states that end an invocation, and the one outcome of each
C12_TerminalOf(s) ==
    CASE s = "NotFound"           -> {"VerbNotFound", "SubverbNotFound"}
      [] s = "ContainerList"      -> {"ContainerList"}
      [] s = "PlanLookup"         -> {"FetchError"}
      [] s = "PlanRequest"        -> {"PlanFailure"}
      [] s = "ExecuteUnsupported" -> {"Unsupported"}
      [] s = "ExecuteNavigate"    -> {"Navigated", "FetchError"}
      [] OTHER                    -> {}

C12_OnePath ==
    Executing =>
        /\ \A i, j \in 1..Len(trace) : trace[i] = trace[j] => i = j
        /\ pc = "done" =>
              /\ outcome \in ResolverTerminals
              /\ trace # <<>>
              /\ outcome \in C12_TerminalOf(trace[Len(trace)])
        /\ pc # "done" => outcome = "running"

----------------------------------------------------------------------------
(* C13: what a refine writes.                                              *)

Refining == cmd.kind = "refine" /\ tabData # Undefined

\* The verbs a tab holds
CacheOf(tab) == IF "verb_cache" \in DOMAIN tab THEN tab.verb_cache ELSE <<>>

\* A refine given a container keeps every entry of verb_cache in its place
\* and changes only the subverbs of the container's entry
C13_Scoped ==
    (Refining /\ cmd.verb # "" /\ pc = "done" /\ outcome = "Refined") =>
        LET old == CacheOf(tabData)
            new == CacheOf(disk[cmd.name])
        IN  /\ Len(new) = Len(old)
            /\ \A i \in 1..Len(old) :
                  /\ new[i].key = old[i].key
                  /\ old[i].key # cmd.verb => new[i] = old[i]
                  /\ old[i].key = cmd.verb =>
                        new[i].value = [old[i].value EXCEPT !.subverbs = output]
            /\ \E i \in 1..Len(old) : old[i].key = cmd.verb

\* As claimed: after a full refine that got the Planner's list, verb_cache
\* is the mapping built from that list, whatever the list
C13_RefineReplaces ==
    /\ C13_Scoped
    /\ (Refining /\ cmd.verb = "" /\ pc = "done" /\ outcome \in {"Refined", "NoVerbs"}) =>
          C3_KeyedByName(CacheOf(disk[cmd.name]), output)

\* As amended: a full refine replaces verb_cache by the mapping built from
\* the Planner's list when that list is not empty, and writes nothing when
\* it is empty
C13_RefineReplacesUnlessEmpty ==
    /\ C13_Scoped
    /\ (Refining /\ cmd.verb = "" /\ pc = "done" /\ outcome \in {"Refined", "NoVerbs"}) =>
          IF output # <<>>
            THEN /\ outcome = "Refined"
                 /\ C3_KeyedByName(CacheOf(disk[cmd.name]), output)
                 /\ disk[cmd.name].verb_cache_expires = clock + CACHE_TTL
                 /\ \A f \in DOMAIN tabData \ {"verb_cache", "verb_cache_expires"} :
                       f \in DOMAIN disk[cmd.name] /\ disk[cmd.name][f] = tabData[f]
            ELSE /\ outcome = "NoVerbs"
                 /\ writes = 0
                 /\ disk[cmd.name] = tabData

\* A full refine finds nothing and leaves the verbs in place, among them a
\* container whose subverbs an earlier refine had replaced
C13_Witness ==
    /\ Refining /\ cmd.verb = "" /\ pc = "done" /\ outcome = "NoVerbs"
    /\ Len(CacheOf(disk[cmd.name])) > 1
    /\ \E i \in 1..Len(CacheOf(disk[cmd.name])) :
          CacheOf(disk[cmd.name])[i].value.subverbs = <<SMech, SDocs>>

----------------------------------------------------------------------------
(* C14: a Planner-backed discovery whose Planner call fails still          *)
(* completes: it lists no verbs and persists the empty verb_cache with an  *)
(* expiry five minutes after the write.                                    *)

PlannerFailed == \E i \in 1..Len(calls) : calls[i].op = "parseError"

C14_DiscoveryDegrades ==
    (Discovering /\ PlannerFailed) =>
        /\ cmd.useLlm /\ cmd.llm
        /\ pc = "done" /\ outcome = "Discovered"
        /\ output = <<>>
        /\ writes = 1
        /\ "verb_cache" \in DOMAIN disk[cmd.name]
        /\ disk[cmd.name].verb_cache = <<>>
        /\ disk[cmd.name].verb_cache_expires = clock + CACHE_TTL

\* The failure replaces verbs that were still valid
C14_Witness ==
    /\ Discovering /\ PlannerFailed /\ pc = "done"
    /\ Len(CacheOf(tabData)) > 0
    /\ now < tabData.verb_cache_expires
    /\ disk[cmd.name].verb_cache_expires > tabData.verb_cache_expires

----------------------------------------------------------------------------
(* C15: a failing fetch ends the command with an error, nothing being      *)
(* called or written after it; a failing nav leaves the store as it was    *)
(* loaded, and a failing fetch of a navigation target leaves current_url,  *)
(* verb_cache and verb_cache_expires as they were.                         *)

FetchFailed == \E i \in 1..Len(calls) : calls[i].op = "fetchError"

C15_FetchFailureTerminates ==
    FetchFailed =>
        /\ pc = "done" /\ outcome = "FetchError"
        /\ calls[Len(calls)].op = "fetchError"
        /\ Cardinality({i \in 1..Len(calls) : calls[i].op = "fetchError"}) = 1
        /\ cmd.kind = "nav" => (writes = 0 /\ disk = state)
        /\ cmd.kind = "refine" => (writes = 0 /\ disk = state)
        /\ Discovering => (writes = 0 /\ disk = state)
        /\ Executing =>
              /\ writes = (IF InTrace("PlanRequest") THEN 1 ELSE 0)
              /\ disk[cmd.name].current_url = tabData.current_url
              /\ disk[cmd.name].last_updated = tabData.last_updated
              /\ \A f \in {"verb_cache", "verb_cache_expires"} :
                    /\ f \in DOMAIN disk[cmd.name] <=> f \in DOMAIN tabData
                    /\ f \in DOMAIN tabData => disk[cmd.name][f] = tabData[f]

\* The target of a freshly planned navigation cannot be fetched
C15_Witness ==
    /\ Executing /\ FetchFailed
    /\ InTrace("ExecuteNavigate") /\ InTrace("PlanRequest")
    /\ "verb_cache" \in DOMAIN disk[cmd.name]

----------------------------------------------------------------------------
(* C16: in the file store, set(name, T) with a valid name succeeds, and    *)
(* get(name) then returns T: every property T gives a value has that       *)
(* value, nested subverbs included, and there is no other property, so     *)
(* nothing of the record that was there before is left.                    *)

FileStoreCalled(op) == call.store = "files" /\ call.op = op

C16_SetThenGet ==
    (FileStoreCalled("set") /\ MatchesTabNamePattern(call.name)) =>
        LET got == getTabFile(files, call.name).value
            T   == call.arg
        IN  /\ result = Returns(Undefined)
            /\ got # Undefined
            /\ got.unset = {}
            /\ \A f \in DOMAIN T.set \ T.unset : f \in DOMAIN got.set /\ got.set[f] = T.set[f]
            /\ \A f \in DOMAIN got.set : f \in DOMAIN T.set \ T.unset

\* A tab with nested verbs is overwritten by one without verbs
C16_Witness ==
    /\ FileStoreCalled("set") /\ call.name = Name50
    /\ getTabPath(Name50) \in DOMAIN before.files
    /\ "verb_cache" \in DOMAIN before.files[getTabPath(Name50)]
    /\ Len(before.files[getTabPath(Name50)].verb_cache[1].value.subverbs[4].subverbs) > 0
    /\ "verb_cache" \notin DOMAIN getTabFile(files, Name50).value.set

----------------------------------------------------------------------------
(* C17: update(name, partial) on a tab the store does not hold fails with  *)
(* 'does not exist' and leaves the store as it was; on a tab it holds,     *)
(* every property the partial names takes the partial's value and every    *)
(* other property keeps its own.  Stated of both StateManagers.            *)

\* The tab a store held under a name before the last call (undefined: none)
C17_Held ==
    IF call.store = "files"
      THEN IF getTabPath(call.name) \in DOMAIN before.files
             THEN before.files[getTabPath(call.name)] ELSE Undefined
      ELSE IF call.name \in DOMAIN before.state THEN before.state[call.name] ELSE Undefined

\* The tab it holds under that name now
C17_Holds ==
    IF call.store = "files"
      THEN IF getTabPath(call.name) \in DOMAIN files THEN files[getTabPath(call.name)] ELSE Undefined
      ELSE IF call.name \in DOMAIN disk THEN disk[call.name] ELSE Undefined

C17_UpdateMergesOrFails ==
    (call.op = "update") =>
        IF C17_Held = Undefined
          THEN /\ result = Throws("DoesNotExist")
               /\ files = before.files
               /\ state = before.state
               /\ disk = before.state
          ELSE /\ result = Returns(Undefined)
               /\ \A f \in DOMAIN call.arg.set \ call.arg.unset :
                     f \in DOMAIN C17_Holds /\ C17_Holds[f] = call.arg.set[f]
               /\ \A f \in call.arg.unset : f \notin DOMAIN C17_Holds
               /\ \A f \in DOMAIN C17_Held \ (DOMAIN call.arg.set \cup call.arg.unset) :
                     f \in DOMAIN C17_Holds /\ C17_Holds[f] = C17_Held[f]
               /\ DOMAIN C17_Holds \subseteq DOMAIN C17_Held \cup DOMAIN call.arg.set

\* What holds: the same of the file store alone (part_005:44-51)
C17_FileUpdateMergesOrFails == FileStoreCalled("update") => C17_UpdateMergesOrFails

----------------------------------------------------------------------------
(* C18: in the file store, delete(name) raises no error; after it          *)
(* get(name) is absent and list() does not have the name; on an absent     *)
(* tab it changes nothing, and deleting again changes nothing.             *)

C18_DeleteIdempotent ==
    FileStoreCalled("delete") =>
        /\ result = Returns(Undefined)
        /\ getTabFile(files, call.name).value = Undefined
        /\ call.name \notin listTabsFile(files)
        /\ getTabFile(before.files, call.name).value = Undefined => files = before.files
        /\ \A f \in DOMAIN files : f \in DOMAIN before.files /\ files[f] = before.files[f]
        /\ deleteTabFile(files, call.name) = Outcome(files, Returns(Undefined))

\* A tab the store does not hold is deleted, beside a tab that stays
C18_Witness ==
    /\ FileStoreCalled("delete") /\ call.name = "t"
    /\ "t" \notin listTabsFile(before.files)
    /\ listTabsFile(files) = {Name50}
    /\ ncalls = 3

----------------------------------------------------------------------------
(* C19: in the file store, after any calls of set, update and delete,      *)
(* list() is exactly the names set and not deleted since, and getAll()     *)
(* maps exactly those names, each to what get(name) returns.               *)

C19_ListAndGetAll ==
    /\ listTabsFile(files) = live
    /\ OwnKeys(getAllTabsFile(files)) = live
    /\ \A name \in OwnKeys(getAllTabsFile(files)) :
          getAllTabsFile(files)[name] = getTabFile(files, name).value

\* What holds: list() is as claimed, and getAll() is as claimed but for the
\* name __proto__, which it leaves out
C19_ListAndGetAllButProto ==
    /\ listTabsFile(files) = live
    /\ OwnKeys(getAllTabsFile(files)) = live \ {"__proto__"}
    /\ \A name \in OwnKeys(getAllTabsFile(files)) :
          getAllTabsFile(files)[name] = getTabFile(files, name).value

----------------------------------------------------------------------------
(* C20: in the file store, set(name, T) succeeds exactly for the names of  *)
(* 1 to 50 letters, digits, hyphens and underscores; for any other name it *)
(* fails with the validation error and leaves the store as it was.         *)

\* The names among FileNames that match ^[A-Za-z0-9_-]{1,50}$
C20_ValidNames == {"t", "__proto__", Name50}

C20_SetValidatesName ==
    FileStoreCalled("set") =>
        /\ Len(Name50) = 50 /\ Len(Name51) = 51
        /\ call.name \in C20_ValidNames <=> result.threw = ""
        /\ call.name \notin C20_ValidNames =>
              /\ result = Throws("InvalidTabName")
              /\ files = before.files
              /\ live = listTabsFile(before.files)

\* A name of 51 characters is refused while the store holds a tab of 50
C20_Witness ==
    /\ FileStoreCalled("set") /\ call.name = Name51
    /\ result.threw # ""
    /\ listTabsFile(files) = {Name50}

----------------------------------------------------------------------------
(* C21: in the file store, a set, update or delete called with a name that *)
(* does not match ^[A-Za-z0-9_-]{1,50}$ changes, creates and removes no    *)
(* persisted record: the tabs directory is as it was before the call.      *)

C21_InvalidNameMutatesNothing ==
    (call.store = "files" /\ call.op \in {"set", "update", "delete"}
        /\ ~MatchesTabNamePattern(call.name)) =>
        files = before.files

\* What holds: of set alone, which is the one operation that validates
C21_InvalidNameSetsNothing ==
    (FileStoreCalled("set") /\ ~MatchesTabNamePattern(call.name)) =>
        /\ result = Throws("InvalidTabName")
        /\ files = before.files

----------------------------------------------------------------------------
(* C22: tabs are independent records, also between two processes: when no *)
(* call is under way, the record each store holds of every tab is the one  *)
(* the last step of a call on that very tab left, whatever calls on other  *)
(* tabs were made in between and however their steps interleaved.          *)

C22_TabsIndependent ==
    Quiescent =>
        \A k \in DOMAIN hist.left : RecordOf(fs, k[1], k[2]) = hist.left[k]

\* What holds: the same of the store with one file per tab
C22_FileTabsIndependent ==
    Quiescent =>
        \A k \in DOMAIN hist.left : k[1] = "files" => RecordOf(fs, k[1], k[2]) = hist.left[k]

----------------------------------------------------------------------------
(* C24: last writer wins.  When the calls of the two processes were sets   *)
(* and updates of one tab name and all have ended, every file of the store *)
(* holds the whole text that the last write to it wrote: the record one    *)
(* writer made from the record it read, and no mixture of two texts.       *)

\* All calls so far were sets and updates of one name
C24_OneTab == Cardinality(hist.names) = 1 /\ hist.ops \subseteq {"set", "update"}

C24_LastWriterWins ==
    (Quiescent /\ C24_OneTab) =>
        \A path \in DOMAIN fs : fs[path].intact /\ fs[path].text = hist.written[path]

\* What holds: the last write decides how the file begins, so that a file
\* that is the text of one writer is the text of the last one
C24_LastWriterWinsIfIntact ==
    (Quiescent /\ C24_OneTab) =>
        \A path \in DOMAIN fs : fs[path].text = hist.written[path]

----------------------------------------------------------------------------
(* C23: persisted tabs survive the process.  After a set or update that    *)
(* succeeded, get on a new instance of the store, after its init(),        *)
(* returns the tab the writing instance holds (after a set: the tab that   *)
(* was set); init() leaves every persisted record as it was, and a second  *)
(* init() changes nothing the first one did.  Stated of both               *)
(* StateManagers.                                                          *)

\* What get(name) returns on a new instance after init()
C23_FreshGet(store, name) ==
    IF store = "json" THEN getTab(init(disk), name) ELSE getTabFile(files, name).value.set

C23_Written == call.op \in {"set", "update"} /\ result.threw = ""

C23_PersistedTabsSurvive ==
    /\ (C23_Written /\ call.store = "json") =>
          /\ C23_FreshGet("json", call.name) = getTab(state, call.name)
          /\ call.op = "set" => C23_FreshGet("json", call.name) = JsonStringify(call.arg)
    /\ (C23_Written /\ call.store = "files") =>
          /\ getTabFile(files, call.name).value # Undefined
          /\ call.op = "set" => C23_FreshGet("files", call.name) = JsonStringify(call.arg)
    /\ call.op = "init" =>
          /\ result = Returns(Undefined)
          /\ files = before.files /\ disk = before.disk
          /\ call.store = "json" => (state = init(disk) /\ init(save(state)) = state)

\* What holds: the same of every name but __proto__ in the tabs.json store
C23_PersistedTabsSurviveButProto ==
    ~(call.store = "json" /\ call.name = "__proto__") => C23_PersistedTabsSurvive

----------------------------------------------------------------------------
(* C25: after a successful nav(url, name) the persisted tab `name` has     *)
(* current_url equal to the url, with https:// put before it when it       *)
(* starts with neither http:// nor https://, and has no verb_cache, no     *)
(* verb_cache_expires and no execution_plan_cache: the tab holds           *)
(* current_url and last_updated and nothing else, whatever it held before. *)

NavSucceeded == cmd.kind = "nav" /\ pc = "done" /\ outcome = "TabCreated"

C25_NavOverwrites ==
    NavSucceeded =>
        /\ normalizedUrl = (IF StartsWith(cmd.url, "http://") \/ StartsWith(cmd.url, "https://")
                              THEN cmd.url ELSE "https://" \o cmd.url)
        /\ cmd.name \in DOMAIN disk
        /\ disk[cmd.name].current_url = normalizedUrl
        /\ disk[cmd.name].last_updated = clock
        /\ DOMAIN disk[cmd.name] = {"current_url", "last_updated"}

\* What holds: the same of every name but __proto__
C25_NavOverwritesButProto == cmd.name # "__proto__" => C25_NavOverwrites

----------------------------------------------------------------------------
(* C26: end to end.  Tab t was created by nav at https://example.com and a *)
(* discovery cached the verbs of the page, among them the navigate verb    *)
(* about with target https://example.com/about.  Invoking about on t then  *)
(* runs DeterministicExecute and ExecuteNavigate with no Planner call and  *)
(* no plan cached, and, the target fetched, leaves t with current_url      *)
(* https://example.com/about and none of the three caches.                 *)

\* The tab as nav and one discovery of the page leave it, about is invoked
C26_Scenario ==
    /\ Executing /\ cmd.name = "t" /\ cmd.verb = "about" /\ cmd.params = <<>>
    /\ DOMAIN tabData = {"current_url", "last_updated", "verb_cache", "verb_cache_expires"}
    /\ tabData.current_url = HomeUrl
    /\ tabData.verb_cache = BuildVerbCache(<<VAbout, VSearch>>)

C26_EndToEnd ==
    (C26_Scenario /\ pc = "done") =>
        /\ trace = <<"DeterministicExecute", "ExecuteNavigate">>
        /\ \A i \in 1..Len(calls) : calls[i].op \notin {"plan", "parse", "extract"}
        /\ calls[1] = Call("fetch", "https://example.com/about")
        /\ outcome \in {"Navigated", "FetchError"}
        /\ outcome = "FetchError" <=> Len(calls) = 2
        /\ outcome = "Navigated" =>
              /\ Len(calls) = 1 /\ writes = 1
              /\ disk["t"].current_url = "https://example.com/about"
              /\ DOMAIN disk["t"] = {"current_url", "last_updated"}

\* nav, discovery and about, three commands in a row
C26_Witness ==
    /\ C26_Scenario /\ pc = "done" /\ outcome = "Navigated"
    /\ ncmds = 3
    /\ disk["t"].current_url = "https://example.com/about"

----------------------------------------------------------------------------
(* C27: every terminal failure names the offending identifier in what it   *)
(* writes to stderr: tab-not-found the tab, verb-not-found the verb,       *)
(* subverb-not-found the subverb and its container, the plan failure and   *)
(* the unsupported method the verb being executed.                         *)

\* s has x in it
Contains(s, x) == \E i \in 1..(Len(s) - Len(x) + 1) : SubSeq(s, i, i + Len(x) - 1) = x

\* The command wrote x to stderr, in quotes
Mentions(x) == \E i \in 1..Len(message) : Contains(message[i], "\"" \o x \o "\"")

C27_FailuresNameTheIdentifier ==
    (cmd.kind = "tab" /\ pc = "done") =>
        /\ outcome = "TabNotFound" => Mentions(cmd.name)
        /\ outcome = "VerbNotFound" => Mentions(cmd.verb)
        /\ outcome = "SubverbNotFound" => (Mentions(cmd.params[1]) /\ Mentions(cmd.verb))
        /\ outcome = "PlanFailure" => Mentions(cachedVerb.name)
        /\ outcome = "Unsupported" => Mentions(cachedVerb.name)

\* What holds: the three not-found failures name what was not found
C27_NotFoundNamesTheIdentifier ==
    (cmd.kind = "tab" /\ pc = "done") =>
        /\ outcome = "TabNotFound" => Mentions(cmd.name)
        /\ outcome = "VerbNotFound" => Mentions(cmd.verb)
        /\ outcome = "SubverbNotFound" => (Mentions(cmd.params[1]) /\ Mentions(cmd.verb))
        /\ outcome \in {"PlanFailure", "Unsupported"} => Len(message) = 2

----------------------------------------------------------------------------
(* The Extractor's lists *)

\* The positions of a list of verbs that hold the first verb of their name
FirstPositions(extracted) ==
    { k \in 1..Len(extracted) : \A j \in 1..(k - 1) : extracted[j].name # extracted[k].name }

\* The position of the first verb of a name
FirstPosition(extracted, name) ==
    CHOOSE k \in 1..Len(extracted) :
       extracted[k].name = name /\ \A j \in 1..(k - 1) : extracted[j].name # name

AllowedNameChars == CharsOf(LowerCase) \cup CharsOf(Digits) \cup {"-"}

(* C28: the output of parse has no two verbs of one name, each of its verbs
   is the first verb of its name in extraction order (so links of one
   sanitized name give one verb with the first link's target), the verbs
   that stay keep their order, and below the limit no name is left out *)
C28_FirstOccurrenceWins ==
    LET extracted == ExtractedVerbs(html, HomeUrl)
        names == { extracted[k].name : k \in 1..Len(extracted) }
        position == [n \in names |-> FirstPosition(extracted, n)]
    IN  /\ \A i, j \in 1..Len(parsedPage) : i # j => parsedPage[i].name # parsedPage[j].name
        /\ \A i \in 1..Len(parsedPage) :
              /\ parsedPage[i].name \in names
              /\ parsedPage[i] = extracted[position[parsedPage[i].name]]
        /\ \A i, j \in 1..Len(parsedPage) :
              i < j => position[parsedPage[i].name] < position[parsedPage[j].name]
        /\ Len(parsedPage) < VerbLimit =>
              names = { parsedPage[i].name : i \in 1..Len(parsedPage) }

\* A page was parsed that has three verbs of one name with three targets,
\* and the verb of that name in the output has the first one's target
C28_Witness ==
    LET extracted == ExtractedVerbs(html, HomeUrl)
    IN  \E k1, k2, k3 \in 1..Len(extracted) :
           /\ k1 < k2 /\ k2 < k3
           /\ k1 = FirstPosition(extracted, extracted[k1].name)
           /\ extracted[k1].name = extracted[k2].name /\ extracted[k2].name = extracted[k3].name
           /\ Cardinality({extracted[k1].target, extracted[k2].target, extracted[k3].target}) = 3
           /\ \E i \in 1..Len(parsedPage) : parsedPage[i] = extracted[k1]
           /\ Len(parsedPage) > 1

(* C29: the output of parse has at most 20 verbs, and it is the first 20 of
   the list without duplicates when that list is longer, the whole of it
   otherwise: duplicates take no place of the 20 *)
C29_CapAfterDedup ==
    LET extracted == ExtractedVerbs(html, HomeUrl)
        firsts == FirstPositions(extracted)
    IN  /\ Len(parsedPage) <= VerbLimit
        /\ Len(parsedPage) =
              IF Cardinality(firsts) > VerbLimit THEN VerbLimit ELSE Cardinality(firsts)
        /\ \A i \in 1..Len(parsedPage) :
              \E k \in firsts :
                 /\ extracted[k] = parsedPage[i]
                 /\ Cardinality({ j \in firsts : j <= k }) = i

\* A page with 30 names was parsed, with a duplicate among its first 20
\* verbs, and the output has 20 verbs
C29_Witness ==
    LET firsts == FirstPositions(ExtractedVerbs(html, HomeUrl))
    IN  /\ Cardinality(firsts) >= 30
        /\ \E k \in 1..VerbLimit : k \notin firsts
        /\ Len(parsedPage) = VerbLimit

(* C30: sanitizeVerbName gives a name that sanitizeVerbName leaves as it is,
   made of lowercase letters, digits and hyphens only, of at most 50
   characters, with no hyphen at its start or at its end *)
C30_SanitizeIdempotent ==
    /\ sanitizeVerbName(verbName) = verbName
    /\ CharsOf(verbName) \subseteq AllowedNameChars
    /\ Len(verbName) <= 50
    /\ verbName # "" => SubSeq(verbName, 1, 1) # "-" /\ SubSeq(verbName, Len(verbName), Len(verbName)) # "-"

\* The name was cut at a hyphen: the 50th character before the cut is one
\* and more characters follow it
CutAtHyphen ==
    LET whole == KebabCase(linkText)
    IN  Len(whole) > 50 /\ SubSeq(whole, 50, 50) = "-"

(* C30, what holds: the name is made of lowercase letters, digits and
   hyphens, has at most 50 characters and no hyphen at its start; it ends
   with a hyphen, and sanitizeVerbName takes that hyphen off, exactly when
   the name was cut at a hyphen *)
C30_SanitizeIdempotentUnlessCutAtHyphen ==
    /\ CharsOf(verbName) \subseteq AllowedNameChars
    /\ Len(verbName) <= 50
    /\ verbName # "" => SubSeq(verbName, 1, 1) # "-"
    /\ CutAtHyphen <=> (verbName # "" /\ SubSeq(verbName, Len(verbName), Len(verbName)) = "-")
    /\ CutAtHyphen <=> sanitizeVerbName(verbName) # verbName
    /\ CutAtHyphen => sanitizeVerbName(verbName) = SubSeq(verbName, 1, 49)


----------------------------------------------------------------------------
(* C31: in Execute-Navigate a plan target that does not start with http:// *)
(* or https:// is resolved against the origin of current_url and not       *)
(* against its path: the URL fetched, and stored when the fetch succeeds,  *)
(* is the origin, a slash, and the target without its leading slash (for   *)
(* current_url https://example.com/a/b and target docs it is               *)
(* https://example.com/docs); an absolute target is fetched and stored as  *)
(* it is.                                                                  *)

\* C31: scheme://host of the URL the tab was loaded at
C31_Origin == UrlOrigin(tabData.current_url)

C31_ResolvedAgainstOrigin ==
    (Executing /\ InTrace("ExecuteNavigate")) =>
        LET target == executionPlan.target_url
            expected == IF IsHttpUrl(target) THEN target
                        ELSE IF SubSeq(target, 1, 1) = "/" THEN C31_Origin \o target
                        ELSE C31_Origin \o "/" \o target
        IN  /\ targetUrl = expected
            /\ (tabData.current_url = "https://example.com/a/b" /\ target = "docs")
                  => targetUrl = "https://example.com/docs"
            /\ pc = "done" =>
                  /\ \E i \in 1..Len(calls) :
                        /\ calls[i] = Call("fetch", expected)
                        /\ \A j \in (i + 1)..Len(calls) : calls[j].op # "fetch"
                  /\ outcome = "Navigated" => disk[cmd.name].current_url = expected

\* A tab at https://example.com/a/b was moved by the plan target docs
C31_Witness ==
    /\ Executing /\ pc = "done" /\ outcome = "Navigated"
    /\ tabData.current_url = "https://example.com/a/b"
    /\ executionPlan.target_url = "docs"
    /\ disk[cmd.name].current_url = "https://example.com/docs"

\* An absolute target was fetched and stored unchanged from a tab elsewhere
C31_WitnessAbsolute ==
    /\ Executing /\ pc = "done" /\ outcome = "Navigated"
    /\ tabData.current_url = "https://example.com/a/b"
    /\ executionPlan.target_url = "https://example.com/about"
    /\ disk[cmd.name].current_url = "https://example.com/about"


----------------------------------------------------------------------------
(* C32: a discovery run with --use-llm while the Planner is not available  *)
(* degrades instead of failing: it bypasses the cache and fetches          *)
(* current_url, hands the page to the structural Extractor and not to the  *)
(* Planner, lists the Extractor's verbs and persists them as verb_cache    *)
(* with verb_cache_expires five minutes after the write.                   *)

C32_DegradesToExtractor ==
    (Discovering /\ cmd.useLlm /\ ~cmd.llm /\ pc = "done") =>
        /\ calls # <<>> /\ calls[1] = Call("fetch", tabData.current_url)
        /\ outcome \in {"Discovered", "FetchError"}
        /\ outcome = "FetchError" <=> FetchFailed
        /\ outcome = "Discovered" =>
              /\ calls = << Call("fetch", tabData.current_url),
                            Call("extract", tabData.current_url) >>
              /\ output \in HtmlLists
              /\ writes = 1
              /\ disk[cmd.name].verb_cache = BuildVerbCache(output)
              /\ disk[cmd.name].verb_cache_expires = clock + CACHE_TTL
              /\ \A f \in DOMAIN tabData \ {"verb_cache", "verb_cache_expires"} :
                    f \in DOMAIN disk[cmd.name] /\ disk[cmd.name][f] = tabData[f]

\* The cached verbs were still valid and were bypassed; the Extractor's
\* verbs replaced them with a later expiry
C32_Witness ==
    /\ Discovering /\ cmd.useLlm /\ ~cmd.llm /\ pc = "done" /\ outcome = "Discovered"
    /\ "verb_cache" \in DOMAIN tabData /\ now < tabData.verb_cache_expires
    /\ tabData.verb_cache # BuildVerbCache(<<VAbout, VSearch>>)
    /\ output = <<VAbout, VSearch>>
    /\ disk[cmd.name].verb_cache_expires > tabData.verb_cache_expires


----------------------------------------------------------------------------
(* C33: in every tab of tabs.json, and of the running command's copy of    *)
(* it, verb_cache is present if and only if verb_cache_expires is present, *)
(* whatever nav, discovery, refine and verb-execution commands were run.   *)

C33_CachePaired(tab) == ("verb_cache" \in DOMAIN tab) <=> ("verb_cache_expires" \in DOMAIN tab)

C33_CacheAndExpiryTogether ==
    /\ \A n \in OwnKeys(disk) : C33_CachePaired(disk[n])
    /\ \A n \in OwnKeys(state) : C33_CachePaired(state[n])

\* A navigation took both away from a tab that had both
C33_Witness ==
    /\ Executing /\ pc = "done" /\ outcome = "Navigated"
    /\ {"verb_cache", "verb_cache_expires"} \subseteq DOMAIN tabData
    /\ {"verb_cache", "verb_cache_expires"} \cap DOMAIN disk[cmd.name] = {}


----------------------------------------------------------------------------
(* C34: commands running one after the other, every key of a tab's         *)
(* execution_plan_cache ends with @ and the tab's current_url: no plan     *)
(* made for an earlier page stays once verb execution or nav has changed   *)
(* current_url.                                                            *)

C34_KeysOfCurrentUrl(tab) ==
    "execution_plan_cache" \in DOMAIN tab =>
        \A key \in OwnKeys(tab.execution_plan_cache) : EndsWith(key, "@" \o tab.current_url)

C34_PlansAreOfCurrentUrl ==
    /\ \A n \in OwnKeys(disk) : C34_KeysOfCurrentUrl(disk[n])
    /\ \A n \in OwnKeys(state) : C34_KeysOfCurrentUrl(state[n])

\* A plan was cached for the page and the navigation that followed it left
\* the tab at another URL with no plan
C34_Witness ==
    /\ Executing /\ pc = "done" /\ outcome = "Navigated" /\ writes = 2
    /\ InTrace("PlanRequest")
    /\ disk[cmd.name].current_url # tabData.current_url
    /\ "execution_plan_cache" \notin DOMAIN disk[cmd.name]

\* A tab holds plans, all of them for its current_url
C34_WitnessCached ==
    /\ pc = "idle" /\ "t" \in OwnKeys(disk)
    /\ "execution_plan_cache" \in DOMAIN disk["t"]
    /\ Cardinality(OwnKeys(disk["t"].execution_plan_cache)) = 2


----------------------------------------------------------------------------
(* C35: verb execution never discovers and never reads the expiry.         *)
(* Invoking a verb on a tab that has no verb_cache (after nav, after a     *)
(* navigating execution) ends in NotFound with no Fetcher call and no      *)
(* write; no execution hands a page to the Extractor or to the Planner's   *)
(* parse or changes verb_cache; and a verb found in verb_cache is resolved *)
(* and executed even when the time is at or past verb_cache_expires.       *)

\* The verb named on the command line is in the tab's verb_cache
C35_VerbCached ==
    "verb_cache" \in DOMAIN tabData /\ JsGet(tabData.verb_cache, cmd.verb) # Undefined

C35_ExecutionNeverDiscovers ==
    Executing =>
        /\ \A i \in 1..Len(calls) : calls[i].op \notin {"extract", "parse", "parseError"}
        /\ \A f \in {"verb_cache", "verb_cache_expires"} :
              (cmd.name \in OwnKeys(disk) /\ f \in DOMAIN disk[cmd.name])
                 => (f \in DOMAIN tabData /\ disk[cmd.name][f] = tabData[f])
        /\ ("verb_cache" \notin DOMAIN tabData /\ pc # "resolve") =>
              /\ pc = "done" /\ outcome = "VerbNotFound" /\ trace = <<"NotFound">>
              /\ calls = <<>> /\ writes = 0 /\ disk = state
        /\ (C35_VerbCached /\ pc # "resolve") =>
              /\ outcome # "VerbNotFound"
              /\ ~IsContainer(JsGet(tabData.verb_cache, cmd.verb)) =>
                    (InTrace("DeterministicExecute") \/ InTrace("PlanLookup"))

\* A cached verb was executed at the time its cache expired
C35_Witness ==
    /\ Executing /\ C35_VerbCached /\ pc = "done" /\ outcome = "Navigated"
    /\ clock >= tabData.verb_cache_expires

\* A verb was invoked directly after a navigating execution
C35_WitnessNoCache ==
    /\ Executing /\ pc = "done" /\ outcome = "VerbNotFound"
    /\ "verb_cache" \notin DOMAIN tabData
    /\ tabData.current_url = "https://example.com/about"


----------------------------------------------------------------------------
(* C36: the plan the Planner gives is persisted before the dispatch on its *)
(* method.  When that plan ends in Execute-Unsupported the tab is not left *)
(* as it was: the plan is in execution_plan_cache under the looked-up key. *)
(* A later invocation whose active verb is looked up under that key, at    *)
(* the same current_url, ends in Execute-Unsupported from the cache with   *)
(* no Fetcher call, no Planner call and no write; the plan is gone only    *)
(* once a navigation or nav has rewritten the tab.                         *)

\* The key the running execution looks its plan up under
C36_Key == PlanCacheKey(cmd.verb, actualVerb, tabData.current_url)

\* The plan the command's copy of the tab holds under that key cannot be
\* executed (the copy is the tab as loaded until the Planner's plan is put
\* into it)
C36_UnsupportedCached ==
    /\ PlanLookup(tabData, C36_Key) # Undefined
    /\ ~IsNavigatePlan(PlanLookup(tabData, C36_Key))

C36_UnsupportedPlanStays ==
    /\ (Executing /\ pc = "done" /\ outcome = "Unsupported" /\ InTrace("PlanRequest")) =>
          /\ writes = 1
          /\ calls[Len(calls)] = Call("plan", cachedVerb.name)
          /\ PlanLookup(disk[cmd.name], C36_Key) = executionPlan
          /\ disk[cmd.name].current_url = tabData.current_url
    /\ (Executing /\ InTrace("PlanLookup") /\ C36_UnsupportedCached) =>
          pc \notin {"plan_fetch", "plan_request"}
    /\ (Executing /\ InTrace("PlanLookup") /\ ~InTrace("PlanRequest") /\ C36_UnsupportedCached) =>
          /\ calls = <<>> /\ writes = 0 /\ disk = state
          /\ executionPlan = PlanLookup(tabData, C36_Key)
          /\ pc = "execute" \/ (pc = "done" /\ outcome = "Unsupported")
          /\ PlanLookup(disk[cmd.name], C36_Key) = PlanLookup(tabData, C36_Key)
    /\ (pc = "done" /\ outcome \in {"Navigated", "TabCreated"} /\ cmd.name \in OwnKeys(disk)) =>
          "execution_plan_cache" \notin DOMAIN disk[cmd.name]

\* The verb was invoked twice at one URL: the Planner's plan was cached by
\* the first invocation and the second failed from the cache
C36_Witness ==
    /\ Executing /\ pc = "done" /\ outcome = "Unsupported"
    /\ C36_UnsupportedCached /\ calls = <<>>
    /\ Cardinality(OwnKeys(tabData.execution_plan_cache)) = 1
    /\ ncmds = 4


----------------------------------------------------------------------------
(* C37: discovery and refine, scoped or full, leave execution_plan_cache   *)
(* as it was, and current_url with it: a plan cached under the name of a   *)
(* verb is still what the plan lookup returns after a refine has put a     *)
(* different verb under that name.                                         *)

\* execution_plan_cache of a tab, Undefined when it has none
C37_Plans(tab) == IF "execution_plan_cache" \in DOMAIN tab THEN tab.execution_plan_cache ELSE Undefined

C37_RediscoveryKeepsPlans ==
    ((Discovering \/ (cmd.kind = "refine" /\ tabData # Undefined)) /\ cmd.name \in OwnKeys(disk)) =>
        /\ ("execution_plan_cache" \in DOMAIN disk[cmd.name]) <=> ("execution_plan_cache" \in DOMAIN tabData)
        /\ C37_Plans(disk[cmd.name]) = C37_Plans(tabData)
        /\ disk[cmd.name].current_url = tabData.current_url
        /\ \A v \in {"search", "products", "constructor"} :
              PlanLookup(disk[cmd.name], PlanCacheKey(v, v, disk[cmd.name].current_url))
                 = PlanLookup(tabData, PlanCacheKey(v, v, tabData.current_url))

\* A full refine put another verb under the name search, and the plan made
\* for the old one is still looked up
C37_Witness ==
    /\ cmd.kind = "refine" /\ cmd.verb = "" /\ pc = "done" /\ outcome = "Refined"
    /\ "verb_cache" \in DOMAIN tabData
    /\ JsGet(tabData.verb_cache, "search") = VSearch
    /\ JsGet(disk[cmd.name].verb_cache, "search") = VSearchB
    /\ PlanLookup(disk[cmd.name], PlanCacheKey("search", "search", disk[cmd.name].current_url)) # Undefined

\* A scoped refine replaced the subverbs of products, and the plan made for
\* one of the old subverbs is still looked up
C37_WitnessScoped ==
    /\ cmd.kind = "refine" /\ cmd.verb = "products" /\ pc = "done" /\ outcome = "Refined"
    /\ "verb_cache" \in DOMAIN tabData
    /\ JsGet(disk[cmd.name].verb_cache, "products") # JsGet(tabData.verb_cache, "products")
    /\ PlanLookup(disk[cmd.name], PlanCacheKey("products", "products", disk[cmd.name].current_url)) # Undefined


----------------------------------------------------------------------------
(* C38: an empty Planner result is treated differently by the two refine   *)
(* modes.  A full refine with an empty result writes nothing: verb_cache   *)
(* and its expiry stay.  A scoped refine with an empty result sets the     *)
(* subverbs of the container to the empty list and renews                  *)
(* verb_cache_expires; the verb is then no container, and invoking it goes *)
(* to execution and not to Container-List.                                 *)

\* A refine has got the Planner's empty result
C38_EmptyResult ==
    /\ cmd.kind = "refine" /\ pc = "done"
    /\ \E i \in 1..Len(calls) : calls[i].op = "parse"
    /\ output = <<>>

C38_EmptyRefine ==
    /\ (C38_EmptyResult /\ cmd.verb = "") =>
          /\ outcome = "NoVerbs" /\ writes = 0
          /\ disk = state /\ disk[cmd.name] = tabData
    /\ (C38_EmptyResult /\ cmd.verb # "") =>
          /\ outcome = "Refined" /\ writes = 1
          /\ JsGet(disk[cmd.name].verb_cache, cmd.verb).subverbs = <<>>
          /\ ~IsContainer(JsGet(disk[cmd.name].verb_cache, cmd.verb))
          /\ disk[cmd.name].verb_cache_expires = clock + CACHE_TTL
          /\ Len(disk[cmd.name].verb_cache) = Len(tabData.verb_cache)
    /\ (/\ Executing /\ pc # "resolve" /\ "verb_cache" \in DOMAIN tabData
        /\ JsGet(tabData.verb_cache, cmd.verb) # Undefined
        /\ JsGet(tabData.verb_cache, cmd.verb).subverbs = <<>>) =>
          /\ ~InTrace("ContainerList")
          /\ InTrace("DeterministicExecute") \/ InTrace("PlanLookup")

\* A scoped refine emptied a container whose cache was still valid
C38_Witness ==
    /\ C38_EmptyResult /\ cmd.verb = "products" /\ outcome = "Refined"
    /\ IsContainer(JsGet(tabData.verb_cache, cmd.verb))
    /\ clock > 0 /\ clock < tabData.verb_cache_expires
    /\ disk[cmd.name].verb_cache_expires > tabData.verb_cache_expires

\* A full refine with an empty result kept the verbs cached before
C38_WitnessFull ==
    /\ C38_EmptyResult /\ cmd.verb = "" /\ outcome = "NoVerbs"
    /\ "verb_cache" \in DOMAIN disk[cmd.name] /\ Len(disk[cmd.name].verb_cache) > 0

\* The emptied container was invoked and executed
C38_WitnessExecuted ==
    /\ Executing /\ cmd.verb = "products" /\ pc = "done" /\ outcome = "Navigated"
    /\ "verb_cache" \in DOMAIN tabData
    /\ JsGet(tabData.verb_cache, "products") # Undefined
    /\ JsGet(tabData.verb_cache, "products").subverbs = <<>>


----------------------------------------------------------------------------
(* C39: an update never brings back a removed tab.  When a delete of a tab *)
(* by the other process has completed after a process loaded the tab and   *)
(* before that process's update of it, the update fails and writes         *)
(* nothing, so the tab stays absent; an update that goes on to write found *)
(* the tab in the store.                                                   *)

\* All calls so far were on the tab `name`, one of them a delete, the other
\* process is between calls, and the store as it lies on disk has no record
\* of the tab: the tab was deleted, and the delete has completed
C39_Deleted(p, store, name) ==
    /\ hist.names = {name} /\ "delete" \in hist.ops
    /\ \A q \in Procs \ {p} : procs[q].pc = "idle"
    /\ store = "json" => (STATE_FILE \in DOMAIN fs /\ fs[STATE_FILE].intact)
    /\ RecordOf(fs, store, name) = Undefined

\* The step of process p: the update of the tabs.json store by a process
\* that has loaded the tab, and the update of the file store
C39_Update(p) ==
    /\ (/\ procs[p].pc = "json_loaded" /\ procs[p].job.op = "update"
        /\ getTab(procs[p].mem, procs[p].job.name) # Undefined
        /\ C39_Deleted(p, "json", procs[p].job.name)
        /\ procs'[p] # procs[p])
          => (procs'[p] = Idle /\ fs' = fs)
    /\ (/\ procs[p].pc = "idle" /\ procs'[p].pc = "file_read")
          => ~C39_Deleted(p, "files", procs'[p].job.name)

C39_UpdateNeverResurrects == [][\A p \in Procs : C39_Update(p)]_vars

\* What holds: the same of the store with one file per tab, whose update
\* reads the tab's file when it is called
C39_FileUpdate(p) ==
    (procs[p].pc = "idle" /\ procs'[p].pc = "file_read")
        => (~C39_Deleted(p, "files", procs'[p].job.name) /\ fs' = fs)

C39_FileUpdateNeverResurrects == [][\A p \in Procs : C39_FileUpdate(p)]_vars

----------------------------------------------------------------------------
(* C40: two commands running at once on one tab never leave it with a verb *)
(* cache or a cached plan of a page other than its current_url; a command  *)
(* that finds current_url changed since it loaded the tab discards what it *)
(* computed instead of writing verbs or plans for the old page.            *)

\* The persisted record of the tab, Undefined when there is none
C40_Record == IF race.store = "none" THEN Undefined
              ELSE RaceLoad(race.store, race.tabs, RaceTab)

\* The verbs and the plans of a tab are those of the page at its current_url
C40_OfCurrentUrl(tab) ==
    /\ "verb_cache" \in DOMAIN tab =>
           tab.verb_cache = BuildVerbCache(PageVerbs(tab.current_url))
    /\ C34_KeysOfCurrentUrl(tab)

C40_CachesOfCurrentUrl ==
    LET tab == C40_Record IN tab # Undefined => C40_OfCurrentUrl(tab)

\* A command whose tab has moved since it was loaded writes no verbs and no plans
C40_Step(p) ==
    LET me == race.run[p]
        tab == C40_Record
        written == IF me.pc = "update_write" THEN me.updates
                  ELSE IF me.pc = "discover_fetch"
                    THEN DiscoveryUpdates(BuildVerbCache(PageVerbs(me.tabData.current_url)), 0)
                  ELSE IF me.pc = "plan_fetch" THEN PlanCacheUpdates(Undefined)
                  ELSE [set |-> Undefined, unset |-> {}]
    IN  (/\ race'.run[p] # me
         /\ race'.tabs # race.tabs
         /\ me.cmd.kind = "tab"
         /\ tab # Undefined
         /\ tab.current_url # me.tabData.current_url)
            => DOMAIN written.set \cap {"verb_cache", "execution_plan_cache"} = {}

C40_StaleWorkDiscarded == [][\A p \in Procs : C40_Step(p)]_vars

C40_ConcurrentCommandsIsolated == []C40_CachesOfCurrentUrl /\ C40_StaleWorkDiscarded

\* On tabs.json every save is of the state one command holds, so the record
\* it leaves is one a command alone could have left
C40_JsonCachesOfCurrentUrl == race.store = "json" => C40_CachesOfCurrentUrl

\* Both commands have written, one after the other had loaded the tab
C40_WitnessJson ==
    /\ race.store = "json" /\ race.ncmds >= 2
    /\ C40_Record # Undefined /\ "verb_cache" \in DOMAIN C40_Record
    /\ \E p \in Procs : /\ race.run[p].pc = "discover_fetch"
                        /\ race.run[p].tabData.current_url # C40_Record.current_url
====
